---- MODULE Spec2Model ----
(***************************************************************************)
(* Model of the rustseo plugin: the redirect subsystem                     *)
(* (models/redirect.rs, services/redirect.rs), the robots.txt subsystem    *)
(* (models/robots.rs, services/robots.rs) and the content analysis         *)
(* (models/analysis.rs, services/analysis.rs).                             *)
(*                                                                         *)
(* A Rust String is modelled as a sequence of one-character strings, so    *)
(* that trimming, splitting, prefix tests, lower-casing and formatting     *)
(* are computed the way the code computes them.                            *)
(***************************************************************************)
EXTENDS Integers, Sequences, FiniteSets, TLC

\* ------------------------------------------------------------------------
\* Bounds of the model
\* ------------------------------------------------------------------------

\* longest rule list the model builds
MaxRules == 2

\* most lines of one CSV text given to import_csv
MaxCsvLines == 2

\* largest hit counter value the model counts up to
MaxHits == 3

\* number of callers that may call record_hit on the same rule
NumCallers == 2

\* ------------------------------------------------------------------------
\* Strings
\* ------------------------------------------------------------------------

None == "None"

\* the ASCII upper-case letters and their lower-case forms
UpperCase ==
    <<"A", "B", "C", "D", "E", "F", "G", "H", "I", "J", "K", "L", "M",
      "N", "O", "P", "Q", "R", "S", "T", "U", "V", "W", "X", "Y", "Z">>

LowerCase ==
    <<"a", "b", "c", "d", "e", "f", "g", "h", "i", "j", "k", "l", "m",
      "n", "o", "p", "q", "r", "s", "t", "u", "v", "w", "x", "y", "z">>

\* each upper-case letter mapped to its lower-case form
LowerMap ==
    [c \in {UpperCase[i] : i \in 1..Len(UpperCase)} |->
        LowerCase[CHOOSE i \in 1..Len(UpperCase) : UpperCase[i] = c]]

\* str::to_lowercase on ASCII text
LowerChar(c) == IF c \in DOMAIN LowerMap THEN LowerMap[c] ELSE c

\* F(v) for a value v that is computed once and then named, as a Rust
\* `let` does
Let(F(_), v) == CHOOSE r \in {F(x) : x \in {v}} : TRUE

ToLower(s) == [i \in 1..Len(s) |-> LowerChar(s[i])]

\* str::starts_with
StartsWith(s, p) ==
    /\ Len(p) <= Len(s)
    /\ SubSeq(s, 1, Len(p)) = p

\* str::contains
Contains(s, p) ==
    \E i \in 1..(Len(s) - Len(p) + 1) : SubSeq(s, i, i + Len(p) - 1) = p

\* char::is_whitespace on ASCII text
IsSpace(c) == c \in {" ", "\t", "\n", "\r"}

RECURSIVE TrimStart(_)
TrimStart(s) ==
    IF s # <<>> /\ IsSpace(Head(s)) THEN TrimStart(Tail(s)) ELSE s

RECURSIVE TrimEnd(_)
TrimEnd(s) ==
    IF s # <<>> /\ IsSpace(s[Len(s)]) THEN TrimEnd(SubSeq(s, 1, Len(s) - 1)) ELSE s

\* str::trim
Trim(s) == TrimEnd(TrimStart(s))

RECURSIVE TrimStartMatches(_, _)
TrimStartMatches(s, c) ==
    IF s # <<>> /\ Head(s) = c THEN TrimStartMatches(Tail(s), c) ELSE s

RECURSIVE TrimEndMatches(_, _)
TrimEndMatches(s, c) ==
    IF s # <<>> /\ s[Len(s)] = c
    THEN TrimEndMatches(SubSeq(s, 1, Len(s) - 1), c)
    ELSE s

\* str::trim_matches(c)
TrimMatches(s, c) == TrimEndMatches(TrimStartMatches(s, c), c)

\* str::split(c): the pieces between the separators, always at least one
RECURSIVE SplitAcc(_, _, _)
SplitAcc(s, c, cur) ==
    IF s = <<>> THEN <<cur>>
    ELSE IF Head(s) = c THEN <<cur>> \o SplitAcc(Tail(s), c, <<>>)
    ELSE SplitAcc(Tail(s), c, Append(cur, Head(s)))

Split(s, c) == SplitAcc(s, c, <<>>)

\* the text has pattern p at position i (1-based)
MatchesAt(s, p, i) ==
    /\ i + Len(p) - 1 <= Len(s)
    /\ SubSeq(s, i, i + Len(p) - 1) = p

\* every position where the pattern occurs
MatchPositions(s, p) == {i \in 1..(Len(s) - Len(p) + 1) : MatchesAt(s, p, i)}

\* the occurrences a left-to-right search reports: each starts at or after
\* the end of the one before (patterns of n >= 1 characters)
RECURSIVE GreedyMatches(_, _, _)
GreedyMatches(at, from, n) ==
    LET rest == {j \in at : j >= from}
    IN IF rest = {} THEN <<>>
       ELSE LET j == CHOOSE x \in rest : \A y \in rest : x <= y
            IN <<j>> \o GreedyMatches(at, j + n, n)

\* str::split(p) for a non-empty text pattern: the pieces between the
\* occurrences, always at least one
SplitStr(s, p) ==
    LET m == GreedyMatches(MatchPositions(s, p), 1, Len(p))
        k == Len(m)
    IN [i \in 1..(k + 1) |->
          SubSeq(s, IF i = 1 THEN 1 ELSE m[i - 1] + Len(p),
                    IF i = k + 1 THEN Len(s) ELSE m[i] - 1)]

\* str::lines(): split on "\n"; a final empty piece (text ending in "\n",
\* or the empty text) yields no line.  The model's texts hold no "\r".
Lines(text) ==
    LET pieces == SplitStr(text, <<"\n">>)
    IN IF pieces[Len(pieces)] = <<>>
       THEN SubSeq(pieces, 1, Len(pieces) - 1)
       ELSE pieces

RECURSIVE Concat(_)
Concat(ss) == IF ss = <<>> THEN <<>> ELSE Head(ss) \o Concat(Tail(ss))


\* ------------------------------------------------------------------------
\* regex::Regex, on the pattern language the model's rules use:
\*   [^] literal* [ (.*) literal* ] [$]
\* Any other use of a metacharacter (an unclosed group, a lone star) is a
\* pattern Regex::new rejects.
\* ------------------------------------------------------------------------

MetaChars == {"(", ")", "*", ".", "^", "$"}

GroupToken == <<"(", ".", "*", ")">>

HasMeta(s) == \E i \in 1..Len(s) : s[i] \in MetaChars

Min(S) == CHOOSE x \in S : \A y \in S : x <= y

Max(S) == CHOOSE x \in S : \A y \in S : x >= y

\* Regex::new(pattern): [ok |-> FALSE] models Err
RegexNew(pattern) ==
    LET anchS == pattern # <<>> /\ pattern[1] = "^"
        p1    == IF anchS THEN Tail(pattern) ELSE pattern
        anchE == p1 # <<>> /\ p1[Len(p1)] = "$"
        body  == IF anchE THEN SubSeq(p1, 1, Len(p1) - 1) ELSE p1
        gpos  == {k \in 1..(Len(body) - 3) : SubSeq(body, k, k + 3) = GroupToken}
        group == gpos # {}
        k     == IF group THEN Min(gpos) ELSE 0
        pre   == IF group THEN SubSeq(body, 1, k - 1) ELSE body
        post  == IF group THEN SubSeq(body, k + 4, Len(body)) ELSE <<>>
    IN IF HasMeta(pre) \/ HasMeta(post)
       THEN [ok |-> FALSE]
       ELSE [ok |-> TRUE, anchS |-> anchS, anchE |-> anchE,
             pre |-> pre, group |-> group, post |-> post]

\* the capture lengths with which re matches u starting at position s
CapLens(re, u, s) ==
    LET afterPre == s + Len(re.pre)
    IN IF ~ (/\ (re.anchS => s = 1)
             /\ afterPre - 1 <= Len(u)
             /\ SubSeq(u, s, afterPre - 1) = re.pre)
       THEN {}
       ELSE IF ~ re.group
       THEN IF re.anchE => afterPre - 1 = Len(u) THEN {0} ELSE {}
       ELSE {n \in 0..(Len(u) - afterPre + 1 - Len(re.post)) :
               /\ SubSeq(u, afterPre + n, afterPre + n + Len(re.post) - 1) = re.post
               /\ (re.anchE => afterPre + n + Len(re.post) - 1 = Len(u))}

MatchStarts(re, u) == {s \in 1..(Len(u) + 1) : CapLens(re, u, s) # {}}

\* Regex::is_match
IsMatch(re, u) == MatchStarts(re, u) # {}

\* the leftmost match, its (.*) taken greedily
FirstMatch(re, u) ==
    LET s == Min(MatchStarts(re, u))
        n == Max(CapLens(re, u, s))
        capFrom == s + Len(re.pre)
    IN [start |-> s,
        end   |-> capFrom + n + Len(re.post) - 1,
        cap   |-> IF re.group THEN SubSeq(u, capFrom, capFrom + n - 1) ELSE <<>>]

\* characters that may continue a capture-group name after "$"
IsIdent(c) == c \notin {"/", "$", "(", ")", ".", "*", "^", ",", "\"", " ", "#", "\n", "\t"}

RECURSIVE IdentRun(_)
IdentRun(s) ==
    IF s # <<>> /\ IsIdent(Head(s)) THEN <<Head(s)>> \o IdentRun(Tail(s)) ELSE <<>>

\* Captures::expand: "$$" is a dollar, "$name" takes the longest name; group
\* 0 is the whole match, group 1 the capture, an unknown group is empty, and
\* a "$" followed by no name stays a "$"
RECURSIVE Expand(_, _, _)
Expand(tmpl, whole, cap) ==
    IF tmpl = <<>> THEN <<>>
    ELSE IF Head(tmpl) # "$" THEN <<Head(tmpl)>> \o Expand(Tail(tmpl), whole, cap)
    ELSE IF Len(tmpl) >= 2 /\ tmpl[2] = "$"
    THEN <<"$">> \o Expand(SubSeq(tmpl, 3, Len(tmpl)), whole, cap)
    ELSE LET name == IdentRun(Tail(tmpl))
             rest == SubSeq(tmpl, 2 + Len(name), Len(tmpl))
         IN IF name = <<>> THEN <<"$">> \o Expand(rest, whole, cap)
            ELSE IF name = <<"0">> THEN whole \o Expand(rest, whole, cap)
            ELSE IF name = <<"1">> THEN cap \o Expand(rest, whole, cap)
            ELSE Expand(rest, whole, cap)

\* Regex::replace: the leftmost match replaced by the expanded template,
\* the text unchanged when nothing matches
Replace(re, u, tmpl) ==
    IF ~ IsMatch(re, u) THEN u
    ELSE LET m == FirstMatch(re, u)
         IN SubSeq(u, 1, m.start - 1)
              \o Expand(tmpl, SubSeq(u, m.start, m.end), m.cap)
              \o SubSeq(u, m.end + 1, Len(u))


\* ------------------------------------------------------------------------
\* models/redirect.rs
\* ------------------------------------------------------------------------

RedirectType == {"Permanent", "Temporary", "TemporaryPreserve",
                 "PermanentPreserve", "Gone", "LegalRestriction"}

MatchType == {"Exact", "Prefix", "Contains", "Regex"}

\* RedirectType::status_code, as the decimal text format!("{}") prints
StatusCode(rt) ==
    CASE rt = "Permanent"         -> <<"3", "0", "1">>
      [] rt = "Temporary"         -> <<"3", "0", "2">>
      [] rt = "TemporaryPreserve" -> <<"3", "0", "7">>
      [] rt = "PermanentPreserve" -> <<"3", "0", "8">>
      [] rt = "Gone"              -> <<"4", "1", "0">>
      [] rt = "LegalRestriction"  -> <<"4", "5", "1">>

\* Redirect::new; id stands for Uuid::now_v7().  The timestamps created_at
\* and updated_at are read by no operation and are left out; last_accessed
\* keeps only whether it is None or Some(time).
RedirectNew(id, source_url, target_url, redirect_type) ==
    [id            |-> id,
     source_url    |-> source_url,
     target_url    |-> target_url,
     redirect_type |-> redirect_type,
     match_type    |-> "Exact",
     is_regex      |-> FALSE,
     is_active     |-> TRUE,
     hit_count     |-> 0,
     last_accessed |-> None]

\* Redirect::get_target
GetTarget(r, url) ==
    IF r.is_regex /\ r.match_type = "Regex" /\ RegexNew(r.source_url).ok
    THEN Replace(RegexNew(r.source_url), url, r.target_url)
    ELSE r.target_url

\* NotFoundLog::new followed by the caller's assignment of referrer and
\* user_agent (log_404)
NotFoundLogNew(url, referrer, user_agent) ==
    [url          |-> url,
     referrer     |-> referrer,
     user_agent   |-> user_agent,
     hit_count    |-> 1,
     has_redirect |-> FALSE,
     is_ignored   |-> FALSE]

\* log_404 replacing the entry instead of counting the hit
LogRecordHitReset(log) == [log EXCEPT !.hit_count = 1]

\* NotFoundLog::record_hit
LogRecordHit(log) == [log EXCEPT !.hit_count = log.hit_count + 1]

\* RedirectSettings::default, the fields the service reads
DefaultSettings == [log_404s |-> TRUE, case_insensitive |-> TRUE]

\* ------------------------------------------------------------------------
\* services/redirect.rs: the lookups
\* ------------------------------------------------------------------------

\* the match arm of find_redirect for one rule; url_to_check is already
\* lower-cased when the setting asks for it
RuleMatches(r, url_to_check, case_insensitive) ==
    LET source == IF case_insensitive THEN ToLower(r.source_url) ELSE r.source_url
    IN CASE r.match_type = "Exact"    -> url_to_check = source
         [] r.match_type = "Prefix"   -> StartsWith(url_to_check, source)
         [] r.match_type = "Contains" -> Contains(url_to_check, source)
         [] r.match_type = "Regex"    ->
                /\ RegexNew(r.source_url).ok
                /\ IsMatch(RegexNew(r.source_url), url_to_check)

\* find_redirect without the is_active test
FindFromIgnoringActive(rules, i, url_to_check, case_insensitive) ==
    LET cands == {j \in i..Len(rules) : RuleMatches(rules[j], url_to_check, case_insensitive)}
    IN IF cands = {} THEN 0 ELSE Min(cands)

\* the loop of find_redirect from position i on: the position of the rule
\* returned, 0 for None
RECURSIVE FindFrom(_, _, _, _)
FindFrom(rules, i, url_to_check, case_insensitive) ==
    IF i > Len(rules) THEN 0
    ELSE IF ~ rules[i].is_active
    THEN FindFrom(rules, i + 1, url_to_check, case_insensitive)
    ELSE IF RuleMatches(rules[i], url_to_check, case_insensitive) THEN i
    ELSE FindFrom(rules, i + 1, url_to_check, case_insensitive)

\* RedirectService::find_redirect
FindRedirect(rules, sett, url) ==
    LET url_to_check == IF sett.case_insensitive THEN ToLower(url) ELSE url
    IN FindFrom(rules, 1, url_to_check, sett.case_insensitive)

\* the value test_url returns
TestUrlResult(rules, sett, url) ==
    LET i == FindRedirect(rules, sett, url)
    IN IF i # 0
       THEN [op |-> "test_url", url |-> url, matches |-> TRUE,
             redirect_id |-> rules[i].id,
             source |-> rules[i].source_url,
             target |-> GetTarget(rules[i], url),
             status_code |-> StatusCode(rules[i].redirect_type)]
       ELSE [op |-> "test_url", url |-> url, matches |-> FALSE,
             redirect_id |-> None, source |-> None, target |-> None,
             status_code |-> None]

\* the value process_redirect returns
ProcessRedirectResult(rules, sett, url) ==
    LET i == FindRedirect(rules, sett, url)
    IN IF i # 0
       THEN [op |-> "process_redirect", url |-> url, some |-> TRUE,
             target_url |-> GetTarget(rules[i], url),
             status_code |-> StatusCode(rules[i].redirect_type),
             redirect_id |-> rules[i].id]
       ELSE [op |-> "process_redirect", url |-> url, some |-> FALSE]


\* ------------------------------------------------------------------------
\* services/redirect.rs: CSV import and export
\* ------------------------------------------------------------------------

\* the third CSV field as a redirect type (the match in import_csv)
ParseType(field) ==
    CASE field \in {<<"3", "0", "1">>, <<"p", "e", "r", "m", "a", "n", "e", "n", "t">>}
             -> "Permanent"
      [] field \in {<<"3", "0", "2">>, <<"t", "e", "m", "p", "o", "r", "a", "r", "y">>}
             -> "Temporary"
      [] field = <<"3", "0", "7">> -> "TemporaryPreserve"
      [] field = <<"3", "0", "8">> -> "PermanentPreserve"
      [] field \in {<<"4", "1", "0">>, <<"g", "o", "n", "e">>} -> "Gone"
      [] OTHER -> "Permanent"

\* whether import_csv passes over the (trimmed) line: empty or a comment
IsSkippedLine(line) == line = <<>> \/ Head(line) = "#"

\* the error naming the 0-based index of the line
ImportErrorZeroBased(line_no, msg) == [line |-> line_no - 1, msg |-> msg]

\* an entry of ImportResult.errors: format!("Line {}: <msg>", line_num + 1)
ImportError(line_no, msg) == [line |-> line_no, msg |-> msg]

\* one iteration of the loop of import_csv; acc holds the service's rule
\* list, the next fresh id and the three accumulators; line_num is 0-based
ImportLine(acc, line_num, raw) ==
    LET line  == Trim(raw)
        parts == Split(line, ",")
    IN IF IsSkippedLine(line) THEN acc
       ELSE IF Len(parts) < 2
       THEN [acc EXCEPT !.errors = Append(@, ImportError(line_num + 1, "Invalid format")),
                        !.skipped = @ + 1]
       ELSE LET source == TrimMatches(Trim(parts[1]), "\"")
                target == TrimMatches(Trim(parts[2]), "\"")
                redirect_type == IF Len(parts) > 2 THEN ParseType(Trim(parts[3]))
                                 ELSE "Permanent"
            IN IF \E i \in 1..Len(acc.redirects) : acc.redirects[i].source_url = source
               THEN [acc EXCEPT
                       !.errors = Append(@, ImportError(line_num + 1, "Duplicate source URL")),
                       !.skipped = @ + 1]
               ELSE [acc EXCEPT
                       !.redirects = Append(@, RedirectNew(acc.next_id, source, target,
                                                           redirect_type)),
                       !.next_id = @ + 1,
                       !.imported = @ + 1]

\* import_csv giving up at the first line it rejects
RECURSIVE ImportLinesAborting(_, _, _)
ImportLinesAborting(acc, lines, i) ==
    IF i > Len(lines) \/ acc.skipped > 0 THEN acc
    ELSE ImportLinesAborting(ImportLine(acc, i - 1, lines[i]), lines, i + 1)

RECURSIVE ImportLines(_, _, _)
ImportLines(acc, lines, i) ==
    IF i > Len(lines) THEN acc
    ELSE ImportLines(ImportLine(acc, i - 1, lines[i]), lines, i + 1)

\* RedirectService::import_csv on a service holding rules, nid the next id
ImportCsvRun(rules, nid, csv) ==
    ImportLines([redirects |-> rules, next_id |-> nid,
                 imported |-> 0, skipped |-> 0, errors |-> <<>>],
                Lines(csv), 1)

CsvHeader == <<"s", "o", "u", "r", "c", "e", ",", "t", "a", "r", "g", "e", "t", ",",
               "t", "y", "p", "e", "\n">>

\* the line export_csv writes for one rule
ExportLine(r) ==
    <<"\"">> \o r.source_url \o <<"\"", ",", "\"">> \o r.target_url \o <<"\"", ",">>
        \o StatusCode(r.redirect_type) \o <<"\n">>

\* RedirectService::export_csv
ExportCsvText(rules) ==
    CsvHeader \o Concat([i \in 1..Len(rules) |-> ExportLine(rules[i])])


\* ------------------------------------------------------------------------
\* State
\* ------------------------------------------------------------------------

VARIABLES
    redirects,      \* RedirectService.redirects: Vec<Redirect>
    settings,       \* RedirectService.settings
    not_found_log,  \* RedirectService.not_found_log: HashMap<String, NotFoundLog>
    next_id,        \* the next value Uuid::now_v7() yields
    result,         \* what the last call returned (with its arguments)
    held,           \* a Redirect the caller owns, not yet given to the service
    borrower,       \* the caller holding the &mut borrow of held, 0 for nobody
    loaded,         \* per caller: the hit_count it read inside record_hit
    calls,          \* per caller: record_hit calls completed on held
    hits,           \* per rule id: record_hit calls completed on that rule
    logged,         \* per URL: log_404 calls made
    content,        \* the robots.txt text a caller holds (a String)
    data            \* the AnalysisInput a caller has built, <<>> before that

vars == <<redirects, settings, not_found_log, next_id, result, held, borrower,
          loaded, calls, hits, logged, content, data>>

Callers == 1..NumCallers

\* ids are handed out in order; the model creates MaxIds rules at most
MaxIds == MaxRules

\* the URLs of the model
UrlA == <<"/", "a">>

UrlB == <<"/", "b">>

UrlX == <<"/", "x">>

UrlUpperA == <<"/", "A">>

UrlAB == <<"/", "a", "/", "b">>

LogUrls == {UrlA, UrlB}

\* RedirectService::new, then with_settings with any value of the two
\* settings the service reads
Init ==
    /\ redirects = <<>>
    /\ settings \in [log_404s : BOOLEAN, case_insensitive : BOOLEAN]
    /\ not_found_log = [u \in LogUrls |-> <<>>]
    /\ next_id = 1
    /\ result = [op |-> "new"]
    /\ held = <<>>
    /\ borrower = 0
    /\ loaded = [c \in Callers |-> -1]
    /\ calls = [c \in Callers |-> 0]
    /\ hits = [i \in 1..MaxIds |-> 0]
    /\ logged = [u \in LogUrls |-> 0]
    /\ content = <<>>
    /\ data = <<>>

callerVars == <<held, borrower, loaded, calls, hits>>

\* ------------------------------------------------------------------------
\* Operations of RedirectService
\* ------------------------------------------------------------------------

\* add_redirect(redirect): the caller hands over a rule it built
AddRedirect(r) ==
    /\ Len(redirects) < MaxRules
    /\ redirects' = Append(redirects, r)
    /\ result' = [op |-> "add_redirect"]
    /\ UNCHANGED <<settings, content, data, not_found_log, logged>>

\* add_301
Add301(source, target) ==
    /\ Len(redirects) < MaxRules
    /\ next_id <= MaxIds
    /\ redirects' = Append(redirects, RedirectNew(next_id, source, target, "Permanent"))
    /\ next_id' = next_id + 1
    /\ result' = [op |-> "add_301"]
    /\ UNCHANGED <<settings, content, data, not_found_log, logged, callerVars>>

\* add_302
Add302(source, target) ==
    /\ Len(redirects) < MaxRules
    /\ next_id <= MaxIds
    /\ redirects' = Append(redirects, RedirectNew(next_id, source, target, "Temporary"))
    /\ next_id' = next_id + 1
    /\ result' = [op |-> "add_302"]
    /\ UNCHANGED <<settings, content, data, not_found_log, logged, callerVars>>

\* find_redirect
FindRedirectCall(url) ==
    /\ result' = [op |-> "find_redirect", url |-> url,
                  found |-> FindRedirect(redirects, settings, url)]
    /\ UNCHANGED <<redirects, settings, content, data, not_found_log, next_id, logged, callerVars>>

\* Redirect::get_target on the rule at position i of get_redirects()
GetTargetCall(i, url) ==
    /\ i \in 1..Len(redirects)
    /\ result' = [op |-> "get_target", rule |-> redirects[i], url |-> url,
                  target |-> GetTarget(redirects[i], url)]
    /\ UNCHANGED <<redirects, settings, content, data, not_found_log, next_id, logged, callerVars>>

\* process_redirect counting a hit on the rule it returns
ProcessRedirectCountingHit(url) ==
    LET i == FindRedirect(redirects, settings, url)
    IN /\ result' = ProcessRedirectResult(redirects, settings, url)
       /\ redirects' = IF i # 0
                       THEN [redirects EXCEPT ![i].hit_count = @ + 1]
                       ELSE redirects
       /\ UNCHANGED <<settings, content, data, not_found_log, next_id, logged,
                      callerVars>>

\* process_redirect: no hit is recorded (the code only carries a comment)
ProcessRedirect(url) ==
    /\ result' = ProcessRedirectResult(redirects, settings, url)
    /\ UNCHANGED <<redirects, settings, content, data, not_found_log, next_id, logged, callerVars>>

\* test_url
TestUrl(url) ==
    /\ result' = TestUrlResult(redirects, settings, url)
    /\ UNCHANGED <<redirects, settings, content, data, not_found_log, next_id, logged, callerVars>>

\* the HashMap not_found_log maps each URL to <<>> (no entry) or <<entry>>;
\* HasLog is get_mut(url).is_some()
HasLog(url) == not_found_log[url] # <<>>

\* log_404
Log404(url, referrer, user_agent) ==
    /\ logged[url] < MaxHits
    /\ logged' = [logged EXCEPT ![url] = @ + 1]
    /\ IF ~ settings.log_404s
       THEN not_found_log' = not_found_log
       ELSE IF HasLog(url)
       THEN not_found_log' = [not_found_log EXCEPT ![url] = <<LogRecordHit(@[1])>>]
       ELSE not_found_log' = [not_found_log EXCEPT
                                ![url] = <<NotFoundLogNew(url, referrer, user_agent)>>]
    /\ result' = [op |-> "log_404"]
    /\ UNCHANGED <<redirects, settings, content, data, next_id, callerVars>>

\* create_redirect_from_404
CreateRedirectFrom404(url, target) ==
    /\ Len(redirects) < MaxRules
    /\ next_id <= MaxIds
    /\ not_found_log' = IF HasLog(url)
                        THEN [not_found_log EXCEPT ![url][1].has_redirect = TRUE]
                        ELSE not_found_log
    /\ redirects' = Append(redirects, RedirectNew(next_id, url, target, "Permanent"))
    /\ next_id' = next_id + 1
    /\ result' = [op |-> "create_redirect_from_404",
                  redirect |-> RedirectNew(next_id, url, target, "Permanent")]
    /\ UNCHANGED <<settings, content, data, logged, callerVars>>

\* ignore_404
Ignore404(url) ==
    /\ not_found_log' = IF HasLog(url)
                        THEN [not_found_log EXCEPT ![url][1].is_ignored = TRUE]
                        ELSE not_found_log
    /\ result' = [op |-> "ignore_404"]
    /\ UNCHANGED <<redirects, settings, content, data, next_id, logged, callerVars>>

\* Vec::swap_remove(pos): the last element takes the place of the removed
SwapRemove(seq, pos) ==
    IF pos = Len(seq) THEN SubSeq(seq, 1, Len(seq) - 1)
    ELSE [SubSeq(seq, 1, Len(seq) - 1) EXCEPT ![pos] = seq[Len(seq)]]

\* Vec::remove(pos)
RemoveAt(seq, pos) == SubSeq(seq, 1, pos - 1) \o SubSeq(seq, pos + 1, Len(seq))

\* iter().position(|r| r.id == id), 0 for None
PositionOf(rules, id) ==
    IF \E i \in 1..Len(rules) : rules[i].id = id
    THEN Min({i \in 1..Len(rules) : rules[i].id = id})
    ELSE 0

\* remove_redirect also clearing has_redirect of the 404 entry the rule's
\* source names
RemoveRedirectClearingLog(id) ==
    LET pos == PositionOf(redirects, id)
        url == redirects[pos].source_url
    IN /\ redirects' = IF pos # 0 THEN RemoveAt(redirects, pos) ELSE redirects
       /\ not_found_log' =
             IF pos # 0 /\ url \in DOMAIN not_found_log /\ HasLog(url)
             THEN [not_found_log EXCEPT ![url][1].has_redirect = FALSE]
             ELSE not_found_log
       /\ result' = [op |-> "remove_redirect", id |-> id, ok |-> pos # 0]
       /\ UNCHANGED <<settings, content, data, next_id, logged, callerVars>>

\* remove_redirect
RemoveRedirect(id) ==
    LET pos == PositionOf(redirects, id)
    IN /\ redirects' = IF pos # 0 THEN RemoveAt(redirects, pos) ELSE redirects
       /\ result' = [op |-> "remove_redirect", id |-> id, ok |-> pos # 0]
       /\ UNCHANGED <<settings, content, data, not_found_log, next_id, logged, callerVars>>


\* update_redirect; an argument of None leaves the field alone.  The
\* assignment of updated_at is not modelled (no operation reads it).
UpdateRedirect(id, source, target, redirect_type) ==
    LET pos == PositionOf(redirects, id)
        r0  == redirects[pos]
        r1  == IF source # <<>> THEN [r0 EXCEPT !.source_url = source[1]] ELSE r0
        r2  == IF target # <<>> THEN [r1 EXCEPT !.target_url = target[1]] ELSE r1
        r3  == IF redirect_type # <<>>
               THEN [r2 EXCEPT !.redirect_type = redirect_type[1]] ELSE r2
    IN /\ redirects' = IF pos # 0 THEN [redirects EXCEPT ![pos] = r3] ELSE redirects
       /\ result' = [op |-> "update_redirect", id |-> id, ok |-> pos # 0]
       /\ UNCHANGED <<settings, content, data, not_found_log, next_id, logged, callerVars>>

\* set_redirect_active taking the rule out and pushing it back with the new
\* flag
SetActiveMovesLast(id, active) ==
    LET pos == PositionOf(redirects, id)
    IN /\ redirects' = IF pos # 0
                       THEN Append(RemoveAt(redirects, pos),
                                   [redirects[pos] EXCEPT !.is_active = active])
                       ELSE redirects
       /\ result' = [op |-> "set_redirect_active", id |-> id,
                     active |-> active, ok |-> pos # 0]
       /\ UNCHANGED <<settings, content, data, not_found_log, next_id, logged, callerVars>>

\* set_redirect_active
SetRedirectActive(id, active) ==
    LET pos == PositionOf(redirects, id)
    IN /\ redirects' = IF pos # 0
                       THEN [redirects EXCEPT ![pos].is_active = active]
                       ELSE redirects
       /\ result' = [op |-> "set_redirect_active", id |-> id,
                     active |-> active, ok |-> pos # 0]
       /\ UNCHANGED <<settings, content, data, not_found_log, next_id, logged, callerVars>>

\* import_csv
ImportCsv(csv) ==
    LET run == ImportCsvRun(redirects, next_id, csv)
    IN /\ redirects' = run.redirects
       /\ next_id' = run.next_id
       /\ result' = [op |-> "import_csv", csv |-> csv, before |-> redirects,
                     imported |-> run.imported, skipped |-> run.skipped,
                     errors |-> run.errors]
       /\ UNCHANGED <<settings, content, data, not_found_log, logged, callerVars>>

\* export_csv
ExportCsv ==
    /\ result' = [op |-> "export_csv", text |-> ExportCsvText(redirects)]
    /\ UNCHANGED <<redirects, settings, content, data, not_found_log, next_id, logged, callerVars>>

\* ------------------------------------------------------------------------
\* The caller's own rule: Redirect::new, record_hit, add_redirect
\* ------------------------------------------------------------------------

\* let mut r = Redirect::new(..)
CallerNew(source, target, redirect_type) ==
    /\ held = <<>>
    /\ next_id <= MaxIds
    /\ held' = <<RedirectNew(next_id, source, target, redirect_type)>>
    /\ next_id' = next_id + 1
    /\ calls' = [c \in Callers |-> 0]
    /\ result' = [op |-> "Redirect::new"]
    /\ UNCHANGED <<redirects, settings, content, data, not_found_log, logged, borrower, loaded, hits>>

\* record_hit entered without exclusive access to the rule
BorrowUnchecked(c) == TRUE

\* record_hit takes &mut self: a caller enters it only while nobody else
\* borrows the rule
CanBorrowMut(c) == borrower = 0

\* loaded[c] while caller c is not inside record_hit
NotLoaded == -1

\* record_hit, first half: self.hit_count is read
BeginRecordHit(c) ==
    /\ held # <<>>
    /\ CanBorrowMut(c)
    /\ loaded[c] = NotLoaded
    /\ held[1].hit_count < MaxHits
    /\ borrower' = c
    /\ loaded' = [loaded EXCEPT ![c] = held[1].hit_count]
    /\ UNCHANGED <<redirects, settings, content, data, not_found_log, next_id, result, logged,
                   held, calls, hits>>

\* hit_count counted twice per hit
IncrementedTwice(n) == n + 2

\* the value hit_count += 1 stores, from the value read
Incremented(n) == n + 1

\* record_hit, second half: hit_count and last_accessed are written and the
\* borrow ends
EndRecordHit(c) ==
    /\ held # <<>>
    /\ loaded[c] # NotLoaded
    /\ held' = <<[held[1] EXCEPT !.hit_count = Incremented(loaded[c]),
                                 !.last_accessed = "Some"]>>
    /\ borrower' = IF borrower = c THEN 0 ELSE borrower
    /\ loaded' = [loaded EXCEPT ![c] = NotLoaded]
    /\ calls' = [calls EXCEPT ![c] = @ + 1]
    /\ hits' = [hits EXCEPT ![held[1].id] = @ + 1]
    /\ result' = [op |-> "record_hit"]
    /\ UNCHANGED <<redirects, settings, content, data, not_found_log, next_id, logged>>

\* service.add_redirect(r): the rule moves into the service, which needs
\* every borrow of it to have ended
AddHeld ==
    /\ held # <<>>
    /\ borrower = 0 /\ \A c \in Callers : loaded[c] = NotLoaded
    /\ AddRedirect(held[1])
    /\ held' = <<>>
    /\ calls' = [c \in Callers |-> 0]
    /\ UNCHANGED <<next_id, borrower, loaded, hits>>


\* ------------------------------------------------------------------------
\* Specification SpecMatch: rule lists of every match type, and the lookups
\* ------------------------------------------------------------------------

MaxMatchRules == 2

PatternOld == <<"^", "/", "a", "/", "(", ".", "*", ")", "$">>

PatternBad == <<"(">>

TemplateNew == <<"/", "n", "/", "$", "1">>

\* the rules callers build: Redirect::new, then the public fields
\* match_type and is_regex assigned
RuleShapes ==
    {[source |-> UrlA,       target |-> UrlX,        match_type |-> "Prefix",   is_regex |-> FALSE],
     [source |-> UrlAB,      target |-> <<"/", "y">>, match_type |-> "Exact",    is_regex |-> FALSE],
     [source |-> UrlX,       target |-> UrlA,        match_type |-> "Exact",    is_regex |-> FALSE],
     [source |-> <<"b">>,    target |-> UrlX,        match_type |-> "Contains", is_regex |-> FALSE],
     [source |-> PatternOld, target |-> TemplateNew, match_type |-> "Regex",    is_regex |-> TRUE],
     [source |-> PatternOld, target |-> TemplateNew, match_type |-> "Regex",    is_regex |-> FALSE],
     [source |-> PatternBad, target |-> UrlX,        match_type |-> "Regex",    is_regex |-> TRUE]}

BuildRule(id, shape, active) ==
    [RedirectNew(id, shape.source, shape.target, "Permanent") EXCEPT
        !.match_type = shape.match_type,
        !.is_regex = shape.is_regex,
        !.is_active = active]

\* add_redirect of a rule built by the caller
AddBuilt(shape, active) ==
    /\ Len(redirects) < MaxMatchRules
    /\ next_id <= MaxIds
    /\ AddRedirect(BuildRule(next_id, shape, active))
    /\ next_id' = next_id + 1
    /\ UNCHANGED callerVars

MatchUrls == {UrlA, UrlAB, UrlX, UrlUpperA, <<"/", "c">>}

InitMatch == Init /\ settings.log_404s

NextMatch ==
    \/ \E shape \in RuleShapes, active \in BOOLEAN : AddBuilt(shape, active)
    \/ \E url \in MatchUrls : FindRedirectCall(url)
    \/ \E i \in 1..MaxMatchRules, url \in MatchUrls : GetTargetCall(i, url)
    \/ \E url \in MatchUrls : TestUrl(url)
    \/ \E url \in MatchUrls : ProcessRedirect(url)

SpecMatch == InitMatch /\ [][NextMatch]_vars


\* ------------------------------------------------------------------------
\* Specification Spec: the rule list and the 404 log under every
\* interleaving of the service's mutating operations
\* ------------------------------------------------------------------------

\* the (referrer, user_agent) pairs log_404 is called with
LogCallers == {<<"ref", None>>}

CsvLineAX == <<"/", "a", ",", "/", "x">>

CsvLineBX410 == <<"/", "b", ",", "/", "x", ",", "4", "1", "0">>

\* the texts import_csv is called with under Spec
SmallCsvTexts == {CsvLineAX, CsvLineBX410 \o <<"\n">> \o CsvLineAX}

\* import_csv of a text that keeps the rule list within cap rules and the
\* ids within max_id
ImportWithin(csv, cap, max_id) ==
    /\ Len(redirects) + Len(Lines(csv)) <= cap
    /\ next_id + Len(Lines(csv)) <= max_id + 1
    /\ ImportCsv(csv)

PrefixShapes ==
    {[source |-> UrlB, target |-> UrlX, match_type |-> "Prefix", is_regex |-> FALSE]}

Next ==
    \/ \E url \in LogUrls, who \in LogCallers : Log404(url, who[1], who[2])
    \/ \E url \in LogUrls : CreateRedirectFrom404(url, UrlX)
    \/ \E url \in LogUrls : Ignore404(url)
    \/ Add301(UrlA, UrlX)
    \/ Add302(UrlB, UrlX)
    \/ \E shape \in PrefixShapes : AddBuilt(shape, TRUE)
    \/ \E csv \in SmallCsvTexts : ImportWithin(csv, MaxRules, MaxIds)
    \/ \E id \in 1..MaxIds : RemoveRedirect(id)
    \/ ExportCsv

\* the 404 log does not read case_insensitive: it keeps its default
InitLog == Init /\ settings.case_insensitive

Spec == InitLog /\ [][Next]_vars

\* ------------------------------------------------------------------------
\* Claims checked under Spec
\* ------------------------------------------------------------------------

\* the log entry of a URL that was logged as many times as it was called
LoggedNTimes(url) ==
    logged[url] >= 1 =>
        /\ Len(not_found_log[url]) = 1
        /\ not_found_log[url][1].url = url
        /\ not_found_log[url][1].hit_count = logged[url]

\* C3 as stated: N >= 1 calls of log_404 on a URL leave exactly one entry
\* for it, with hit_count = N
C3_LoggedOncePerUrl == \A url \in LogUrls : LoggedNTimes(url)

\* C3 amended: the same while the log_404s setting is on
C3_LoggedOncePerUrlWhenEnabled ==
    settings.log_404s => \A url \in LogUrls : LoggedNTimes(url)

\* C3 witness: logging is on, log_404("/a") was called twice and the entry
\* counts 2
C3_Witness ==
    /\ settings.log_404s
    /\ logged[UrlA] = 2
    /\ not_found_log[UrlA] # <<>>
    /\ not_found_log[UrlA][1].hit_count = 2

\* C4: every 404 log entry whose URL is the source of an existing redirect
\* rule has has_redirect = TRUE
C4_LogReflectsRedirect ==
    \A url \in LogUrls :
        (/\ not_found_log[url] # <<>>
         /\ \E i \in 1..Len(redirects) : redirects[i].source_url = url)
            => not_found_log[url][1].has_redirect

\* whether no two rules of the list have the same source
DistinctSources(rules) ==
    \A i, j \in 1..Len(rules) : rules[i].source_url = rules[j].source_url => i = j

\* C9: importing the text export_csv produced into an empty service gives
\* the same number of rules, in the same order, each with the source,
\* target and redirect type of the exported rule, and skips nothing
C9_ExportImportInverse ==
    (result.op = "export_csv" /\ DistinctSources(redirects)) =>
        LET run == ImportCsvRun(<<>>, 1, result.text)
        IN /\ run.skipped = 0
           /\ Len(run.redirects) = Len(redirects)
           /\ \A i \in 1..Len(redirects) :
                  /\ run.redirects[i].source_url = redirects[i].source_url
                  /\ run.redirects[i].target_url = redirects[i].target_url
                  /\ run.redirects[i].redirect_type = redirects[i].redirect_type

\* ------------------------------------------------------------------------
\* Specification SpecHits: a rule's hit counter, from Redirect::new through
\* record_hit by several callers to its life inside the service
\* ------------------------------------------------------------------------

InitHits == Init /\ settings = DefaultSettings

\* Option<T> arguments: <<>> is None, <<v>> is Some(v)
OptionOf(S) == {<<>>} \cup {<<v>> : v \in S}

\* one caller hits the rule it holds and hands it to the service, whose
\* other operations then work on it
NextHits ==
    \/ CallerNew(UrlA, UrlX, "Permanent")
    \/ BeginRecordHit(1)
    \/ EndRecordHit(1)
    \/ AddHeld
    \/ \E id \in 1..MaxIds, source \in OptionOf({UrlB}) :
           UpdateRedirect(id, source, <<>>, <<"Gone">>)
    \/ \E id \in 1..MaxIds : SetRedirectActive(id, FALSE)
    \/ \E id \in 1..MaxIds : RemoveRedirect(id)
    \/ ProcessRedirect(UrlA)
    \/ CreateRedirectFrom404(UrlB, UrlX)

SpecHits == InitHits /\ [][NextHits]_vars

\* several callers hit the same rule
NextRace ==
    \/ CallerNew(UrlA, UrlX, "Permanent")
    \/ \E c \in Callers : BeginRecordHit(c)
    \/ \E c \in Callers : EndRecordHit(c)
    \/ AddHeld

SpecRace == InitHits /\ [][NextRace]_vars

\* ------------------------------------------------------------------------
\* Claims checked under SpecHits and SpecRace
\* ------------------------------------------------------------------------

\* every rule there is: those of the service and the one the caller holds
AllRules(rules, own) ==
    {rules[i] : i \in 1..Len(rules)} \cup {own[i] : i \in 1..Len(own)}

\* a rule's hit_count is the number of record_hit calls completed on it
\* (so it starts at 0 and N calls make it N), and is never negative
HitCountIsCallCount ==
    \A r \in AllRules(redirects, held) : r.hit_count = hits[r.id] /\ r.hit_count >= 0

\* a step leaves a rule's hit_count alone or is a record_hit of that rule
\* and raises it by exactly 1; a rule that appears starts at 0
HitCountStep ==
    /\ \A r \in AllRules(redirects, held), r2 \in AllRules(redirects', held') :
           r2.id = r.id =>
               \/ r2.hit_count = r.hit_count
               \/ /\ r2.hit_count = r.hit_count + 1
                  /\ result'.op = "record_hit"
                  /\ hits'[r.id] = hits[r.id] + 1
    /\ \A r2 \in AllRules(redirects', held') :
           (\A r \in AllRules(redirects, held) : r.id # r2.id) => r2.hit_count = 0

\* C2: a rule's hit_count starts at 0, grows by exactly 1 on each
\* record_hit of that rule, is changed by no other operation, never
\* decreases and is never negative
C2_HitCountCounts == [] HitCountIsCallCount /\ [][HitCountStep]_vars

\* C2 witness: a rule that was hit twice sits in the service and an
\* update_redirect of it has just succeeded
C2_Witness ==
    /\ result.op = "update_redirect" /\ result.ok
    /\ \E i \in 1..Len(redirects) :
           /\ redirects[i].id = result.id
           /\ redirects[i].hit_count = 2
           /\ redirects[i].source_url = UrlB

RECURSIVE SumTo(_, _)
SumTo(f, n) == IF n = 0 THEN 0 ELSE f[n] + SumTo(f, n - 1)

\* no caller is inside record_hit
Quiescent == borrower = 0 /\ \A c \in Callers : loaded[c] = NotLoaded

CsvLineQuotedAY302 ==
    <<"\"", "/", "a", "\"", ",", "\"", "/", "y", "\"", ",", "3", "0", "2">>

CsvLineComment == <<"#", " ", "c">>

CsvLineBlank == <<" ">>

CsvLineOneField == <<"/", "a">>

CsvLineKinds ==
    {CsvLineAX, CsvLineQuotedAY302, CsvLineBX410, CsvLineComment, CsvLineBlank,
     CsvLineOneField}

\* the lines joined by "\n", no newline after the last
RECURSIVE JoinLines(_)
JoinLines(ls) ==
    IF Len(ls) = 1 THEN ls[1] ELSE ls[1] \o <<"\n">> \o JoinLines(Tail(ls))

\* the texts import_csv is called with under SpecCsv
CsvTexts ==
    {JoinLines(ls) : ls \in UNION {[1..n -> CsvLineKinds] : n \in 1..MaxCsvLines}}

\* the longest rule list under SpecCsv: one rule added before the import
MaxCsvRules == MaxCsvLines + 1

NextCsv ==
    \/ Add301(UrlA, UrlX)
    \/ \E csv \in CsvTexts : ImportWithin(csv, MaxCsvRules, MaxCsvRules)

SpecCsv == InitHits /\ [][NextCsv]_vars

\* ------------------------------------------------------------------------
\* Claims checked under SpecCsv
\* ------------------------------------------------------------------------

\* the 1-based numbers of the lines of a text that are neither empty nor
\* comments
DataLineNos(csv) ==
    {i \in 1..Len(Lines(csv)) :
        LET l == Trim(Lines(csv)[i]) IN l # <<>> /\ l[1] # "#"}

FieldsOf(line) == Split(Trim(line), ",")

WellFormed(line) == Len(FieldsOf(line)) >= 2

SourceOf(line) == TrimMatches(Trim(FieldsOf(line)[1]), "\"")

TargetOf(line) == TrimMatches(Trim(FieldsOf(line)[2]), "\"")

SourcesOf(rules) == {rules[i].source_url : i \in 1..Len(rules)}

ErrorLines(errors) == {errors[k].line : k \in 1..Len(errors)}

\* the k-th smallest element of a set of numbers
Nth(S, k) == CHOOSE x \in S : Cardinality({y \in S : y < x}) = k - 1

\* C7: a line whose source is that of a rule already in the list, or of a
\* line imported earlier in the same call, is rejected with an error naming
\* its 1-based line number; two lines with the same source give
\* imported = 1, skipped = 1, one error naming the second line, and only the
\* first line's rule is added
C7_DuplicateRejected ==
    result.op = "import_csv" =>
        LET ls == Lines(result.csv)
            D  == DataLineNos(result.csv)
            first == Min(D)
            second == Max(D)
        IN /\ \A i \in D :
                (WellFormed(ls[i]) /\ SourceOf(ls[i]) \in SourcesOf(result.before))
                    => \E k \in 1..Len(result.errors) :
                           /\ result.errors[k].line = i
                           /\ result.errors[k].msg = "Duplicate source URL"
           /\ (/\ Cardinality(D) = 2
               /\ WellFormed(ls[first]) /\ WellFormed(ls[second])
               /\ SourceOf(ls[first]) = SourceOf(ls[second])
               /\ SourceOf(ls[first]) \notin SourcesOf(result.before))
                  => /\ result.imported = 1
                     /\ result.skipped = 1
                     /\ result.errors = <<[line |-> second, msg |-> "Duplicate source URL"]>>
                     /\ Len(redirects) = Len(result.before) + 1
                     /\ redirects[Len(redirects)].source_url = SourceOf(ls[first])
                     /\ redirects[Len(redirects)].target_url = TargetOf(ls[first])

\* C7 witness: "/a,/x" then "\"/a\",\"/y\",302" imported into an empty
\* service: one rule /a -> /x, one error for line 2
C7_Witness ==
    /\ result.op = "import_csv"
    /\ result.csv = CsvLineAX \o <<"\n">> \o CsvLineQuotedAY302
    /\ result.before = <<>>
    /\ result.imported = 1 /\ result.skipped = 1
    /\ result.errors[1].line = 2
    /\ Len(redirects) = 1 /\ redirects[1].target_url = UrlX

\* C8: every data line is imported or skipped, a skipped line adds exactly
\* one error with its line number, the lines after it are still processed,
\* imported + skipped is the number of data lines, errors has skipped
\* entries, and the list has grown by imported active rules in line order
C8_BadLineNeverAborts ==
    result.op = "import_csv" =>
        LET ls   == Lines(result.csv)
            D    == DataLineNos(result.csv)
            errs == result.errors
            E    == ErrorLines(errs)
            I    == D \ E
            old  == Len(result.before)
            new  == SubSeq(redirects, old + 1, Len(redirects))
        IN /\ result.imported + result.skipped = Cardinality(D)
           /\ Len(errs) = result.skipped
           /\ E \subseteq D /\ Cardinality(E) = Len(errs)
           /\ \A k \in 1..(Len(errs) - 1) : errs[k].line < errs[k + 1].line
           /\ \A i \in D :
                  i \in E <=>
                      \/ ~ WellFormed(ls[i])
                      \/ SourceOf(ls[i]) \in SourcesOf(result.before)
                      \/ \E j \in I : j < i /\ SourceOf(ls[j]) = SourceOf(ls[i])
           /\ SubSeq(redirects, 1, old) = result.before
           /\ Len(new) = result.imported
           /\ Cardinality(I) = result.imported
           /\ \A k \in 1..Len(new) :
                  /\ new[k].is_active
                  /\ new[k].source_url = SourceOf(ls[Nth(I, k)])
                  /\ new[k].target_url = TargetOf(ls[Nth(I, k)])

\* C8 witness: a malformed first line is skipped and the line after it is
\* imported
C8_Witness ==
    /\ result.op = "import_csv"
    /\ result.csv = CsvLineOneField \o <<"\n">> \o CsvLineBX410
    /\ result.skipped = 1 /\ result.imported = 1
    /\ result.errors = <<[line |-> 1, msg |-> "Invalid format"]>>
    /\ redirects[Len(redirects)].source_url = UrlB
    /\ redirects[Len(redirects)].redirect_type = "Gone"

\* ------------------------------------------------------------------------
\* Claims checked under SpecMatch
\* ------------------------------------------------------------------------

\* the URL and the source pattern as find_redirect is to compare them
Normalized(str) == IF settings.case_insensitive THEN ToLower(str) ELSE str

\* whether a rule's match type accepts the URL
Accepts(r, url) ==
    LET u == Normalized(url)
        p == Normalized(r.source_url)
    IN CASE r.match_type = "Exact"    -> u = p
         [] r.match_type = "Prefix"   -> \E k \in 0..Len(u) : SubSeq(u, 1, k) = p
         [] r.match_type = "Contains" ->
                \E i \in 1..(Len(u) + 1), j \in 0..Len(u) : SubSeq(u, i, j) = p
         [] r.match_type = "Regex"    ->
                RegexNew(r.source_url).ok /\ IsMatch(RegexNew(r.source_url), u)

ActiveMatches(url) ==
    {j \in 1..Len(redirects) : redirects[j].is_active /\ Accepts(redirects[j], url)}

\* C1: find_redirect returns the first rule, in insertion order, that is
\* active and whose match type accepts the URL, even when a later rule
\* matches more specifically; it returns None only when no active rule
\* matches.
C1_FirstMatchWins ==
    result.op = "find_redirect" =>
        IF ActiveMatches(result.url) = {}
        THEN result.found = 0
        ELSE result.found = Min(ActiveMatches(result.url))

\* C1 witness: rules [Prefix "/a" -> "/x", Exact "/a/b" -> "/y"], both
\* active, and find_redirect("/a/b") returned the first
C1_Witness ==
    /\ result.op = "find_redirect"
    /\ result.url = UrlAB
    /\ Len(redirects) = 2
    /\ redirects[1].match_type = "Prefix" /\ redirects[1].source_url = UrlA
    /\ redirects[2].match_type = "Exact" /\ redirects[2].source_url = UrlAB
    /\ redirects[1].is_active /\ redirects[2].is_active
    /\ result.found = 1

\* C5: test_url resolves the chain: the target it reports is where the
\* chain halts, so either no rule matched the starting URL, or no rule
\* matches the reported target (final), or a loop or an over-long chain is
\* reported.  TestResult has no field that reports a loop or a chain.
C5_ChainResolved ==
    (result.op = "test_url" /\ result.matches) =>
        FindRedirect(redirects, settings, result.target) = 0

\* C10: get_target of a rule whose match type is Regex (its pattern
\* compiling and matching the URL) is the URL with the pattern's match
\* replaced by the target template, capture groups substituted; of a rule
\* of any other match type it is the target verbatim
C10_RegexTarget ==
    result.op = "get_target" =>
        LET r == result.rule
        IN IF r.match_type = "Regex"
           THEN (RegexNew(r.source_url).ok /\ IsMatch(RegexNew(r.source_url), result.url)) =>
                    result.target = Replace(RegexNew(r.source_url), result.url, r.target_url)
           ELSE result.target = r.target_url

\* get_target of the flagged rule "^/a/(.*)$" -> "/n/$1" on "/a/b" is "/n/b"
RegexTargetExample ==
    (/\ result.op = "get_target"
     /\ result.rule.is_regex /\ result.rule.match_type = "Regex"
     /\ result.rule.source_url = PatternOld
     /\ result.url = UrlAB)
        => result.target = <<"/", "n", "/", "b">>

\* ========================================================================
\* The robots.txt subsystem: models/robots.rs (RobotsTxt, RobotsRule) and
\* services/robots.rs (RobotsService)
\* ========================================================================

\* most lines of one robots.txt text
MaxRobotsLines == 3

\* str::split_once(c): None when c does not occur, else the text before and
\* after its first occurrence
SplitOnce(s, c) ==
    LET at == {i \in 1..Len(s) : s[i] = c}
    IN IF at = {} THEN <<>>
       ELSE LET i == Min(at)
            IN << <<SubSeq(s, 1, i - 1), SubSeq(s, i + 1, Len(s))>> >>

Digits == <<"0", "1", "2", "3", "4", "5", "6", "7", "8", "9">>

IsDigit(c) == \E i \in 1..Len(Digits) : Digits[i] = c

DigitValue(c) == (CHOOSE i \in 1..Len(Digits) : Digits[i] = c) - 1

RECURSIVE DecimalValue(_, _)
DecimalValue(s, acc) ==
    IF s = <<>> THEN acc
    ELSE DecimalValue(Tail(s), acc * 10 + DigitValue(Head(s)))

\* most digits of a number the model parses: every such number fits a u32
MaxDigits == 9

\* str::parse::<u32>(): an optional "+", then one or more digits; anything
\* else is Err (<<>>)
ParseU32(s) ==
    LET body == IF s # <<>> /\ s[1] = "+" THEN Tail(s) ELSE s
    IN IF \/ body = <<>>
          \/ Len(body) > MaxDigits
          \/ \E i \in 1..Len(body) : ~ IsDigit(body[i])
       THEN <<>>
       ELSE <<DecimalValue(body, 0)>>

\* u32 formatted by "{}"
RECURSIVE FormatU32(_)
FormatU32(n) ==
    IF n < 10 THEN <<Digits[n + 1]>>
    ELSE Append(FormatU32(n \div 10), Digits[(n % 10) + 1])

\* RobotsTxt::new
RobotsTxtNew ==
    [rules |-> <<>>, sitemaps |-> <<>>, crawl_delay |-> <<>>,
     custom_content |-> <<>>]

\* the RobotsRule parse opens at a user-agent line (RobotsRule::new)
RobotsRuleNew(user_agent) ==
    [user_agent |-> user_agent, allow |-> <<>>, disallow |-> <<>>,
     crawl_delay |-> <<>>]

DirUserAgent == <<"u", "s", "e", "r", "-", "a", "g", "e", "n", "t">>

DirAllow == <<"a", "l", "l", "o", "w">>

DirDisallow == <<"d", "i", "s", "a", "l", "l", "o", "w">>

DirCrawlDelay == <<"c", "r", "a", "w", "l", "-", "d", "e", "l", "a", "y">>

DirSitemap == <<"s", "i", "t", "e", "m", "a", "p">>

\* one iteration of the loop of RobotsTxt::parse; st holds robots and
\* current_rule
ParseLine(st, raw) ==
    LET line == Trim(raw)
    IN IF line = <<>> \/ line[1] = "#" THEN st
       ELSE
       LET kv == SplitOnce(line, ":")
       IN IF kv = <<>> THEN st
          ELSE
          LET directive == ToLower(Trim(kv[1][1]))
              value     == Trim(kv[1][2])
              open      == st.current_rule # <<>>
          IN CASE directive = DirUserAgent ->
                    [robots |-> IF open
                                THEN [st.robots EXCEPT
                                        !.rules = Append(@,
                                            st.current_rule[1])]
                                ELSE st.robots,
                     current_rule |-> <<RobotsRuleNew(value)>>]
               [] directive = DirAllow ->
                    IF open
                    THEN [st EXCEPT !.current_rule =
                            <<[@[1] EXCEPT !.allow = Append(@, value)]>>]
                    ELSE st
               [] directive = DirDisallow ->
                    IF open
                    THEN [st EXCEPT !.current_rule =
                            <<[@[1] EXCEPT !.disallow = Append(@, value)]>>]
                    ELSE st
               [] directive = DirCrawlDelay ->
                    LET delay == ParseU32(value)
                    IN IF delay = <<>> THEN st
                       ELSE IF open
                       THEN [st EXCEPT !.current_rule =
                               <<[@[1] EXCEPT !.crawl_delay = delay]>>]
                       ELSE [st EXCEPT !.robots.crawl_delay = delay]
               [] directive = DirSitemap ->
                    [st EXCEPT !.robots.sitemaps = Append(@, value)]
               [] OTHER -> st

RECURSIVE ParseLines(_, _)
ParseLines(st, lines) ==
    IF lines = <<>> THEN st
    ELSE ParseLines(ParseLine(st, Head(lines)), Tail(lines))

\* parse returning without pushing the rule still open after the last line
ParseNoFlush(text) ==
    ParseLines([robots |-> RobotsTxtNew, current_rule |-> <<>>],
               Lines(text)).robots

\* RobotsTxt::parse
Parse(text) ==
    LET st == ParseLines([robots |-> RobotsTxtNew, current_rule |-> <<>>],
                         Lines(text))
    IN IF st.current_rule # <<>>
       THEN [st.robots EXCEPT !.rules = Append(@, st.current_rule[1])]
       ELSE st.robots

\* Option::or
OptionOr(a, b) == IF a # <<>> THEN a ELSE b

\* the lines format!("<label>{}\n", v) writes for each v of a list
LabelledLines(label, values) ==
    Concat([i \in 1..Len(values) |-> label \o values[i] \o <<"\n">>])

\* the text RobotsTxt::to_string writes for one rule
RuleToString(robots, rule) ==
    LET delay == OptionOr(rule.crawl_delay, robots.crawl_delay)
    IN <<"U", "s", "e", "r", "-", "a", "g", "e", "n", "t", ":",
        " ">> \o rule.user_agent \o <<"\n">>
       \o LabelledLines(<<"A", "l", "l", "o", "w", ":", " ">>, rule.allow)
       \o LabelledLines(<<"D", "i", "s", "a", "l", "l", "o", "w", ":", " ">>,
           rule.disallow)
       \o (IF delay # <<>>
           THEN <<"C", "r", "a", "w", "l", "-", "d", "e", "l", "a", "y", ":",
               " ">> \o FormatU32(delay[1]) \o <<"\n">>
           ELSE <<>>)
       \o <<"\n">>

\* RobotsTxt::to_string
RobotsToString(robots) ==
    Concat([i \in 1..Len(robots.rules) |-> RuleToString(robots,
        robots.rules[i])])
    \o LabelledLines(<<"S", "i", "t", "e", "m", "a", "p", ":", " ">>,
        robots.sitemaps)
    \o (IF robots.custom_content # <<>>
        THEN <<"\n">> \o robots.custom_content[1] \o <<"\n">>
        ELSE <<>>)

Star == <<"*">>

\* the rule is_allowed selects: the position of the first rule whose
\* user_agent is the queried one or "*", else of the first "*" rule, 0 for
\* None
SelectRule(rules, user_agent) ==
    LET first == {i \in 1..Len(rules) :
                    rules[i].user_agent = user_agent \/ rules[i].user_agent = Star}
        star  == {i \in 1..Len(rules) : rules[i].user_agent = Star}
    IN IF first # {} THEN Min(first)
       ELSE IF star # {} THEN Min(star)
       ELSE 0

\* the disallow list consulted before the allow list
DisallowFirst(rule, path) ==
    IF \E i \in 1..Len(rule.disallow) :
          rule.disallow[i] # <<>> /\ StartsWith(path, rule.disallow[i])
    THEN FALSE
    ELSE TRUE

\* the two loops of is_allowed over the selected rule
RuleAllows(rule, path) ==
    IF \E i \in 1..Len(rule.allow) : StartsWith(path, rule.allow[i])
    THEN TRUE
    ELSE IF \E i \in 1..Len(rule.disallow) :
               rule.disallow[i] # <<>> /\ StartsWith(path, rule.disallow[i])
    THEN FALSE
    ELSE TRUE

\* RobotsService::is_allowed
IsAllowed(text, path, user_agent) ==
    LET robots == Parse(text)
        i      == SelectRule(robots.rules, user_agent)
    IN IF i # 0 THEN RuleAllows(robots.rules[i], path) ELSE TRUE

\* a message built by format!: its literal text and the values put in it
Message(text, args) == [text |-> text, args |-> args]

\* SelectSeq with the test given as a set of positions
Filter(seq, keep) ==
    LET F[i \in 0..Len(seq)] ==
            IF i = 0 THEN <<>>
            ELSE IF i \in keep THEN Append(F[i - 1], seq[i]) ELSE F[i - 1]
    IN F[Len(seq)]

HttpPrefix == <<"h", "t", "t", "p", ":", "/", "/">>

HttpsPrefix == <<"h", "t", "t", "p", "s", ":", "/", "/">>

\* a rule reported without looking at its user_agent
NoRuleErrors(rule) == <<>>

\* what the loop body of validate pushes for one rule: its errors and its
\* warnings
RuleErrors(rule) ==
    IF rule.user_agent = <<>>
    THEN <<Message("Empty user-agent found", <<>>)>>
    ELSE <<>>

RuleWarnings(rule) ==
    LET conflicting == {i \in 1..Len(rule.allow) :
                          \E j \in 1..Len(rule.disallow) :
                              rule.disallow[j] = rule.allow[i]}
        hit == Filter(rule.allow, conflicting)
    IN [k \in 1..Len(hit) |->
          Message("Conflicting rules for path '{}' in {}",
                  <<hit[k], rule.user_agent>>)]

\* RobotsService::validate
Validate(text) ==
    LET robots == Parse(text)
        bad == {i \in 1..Len(robots.sitemaps) :
                   /\ ~ StartsWith(robots.sitemaps[i], HttpPrefix)
                   /\ ~ StartsWith(robots.sitemaps[i], HttpsPrefix)}
        badmaps == Filter(robots.sitemaps, bad)
        errors ==
            Concat([i \in 1..Len(robots.rules) |-> RuleErrors(robots.rules[i])])
            \o [k \in 1..Len(badmaps) |->
                  Message("Invalid sitemap URL: {}", <<badmaps[k]>>)]
        warnings ==
            (IF robots.rules = <<>>
             THEN <<Message("No user-agent rules defined", <<>>)>>
             ELSE <<>>)
            \o Concat([i \in 1..Len(robots.rules) |->
                         RuleWarnings(robots.rules[i])])
    IN [valid |-> errors = <<>>, errors |-> errors, warnings |-> warnings]

\* ------------------------------------------------------------------------
\* A caller writes a robots.txt text line by line and asks is_allowed
\* ------------------------------------------------------------------------

\* number of lines of a text
LineCount(text) == Len(Lines(text))

\* the caller appends one line to its text
PushLine(line) ==
    /\ LineCount(content) < MaxRobotsLines
    /\ content' = IF content = <<>> THEN line ELSE content \o <<"\n">> \o line
    /\ result' = [op |-> "push_str"]
    /\ UNCHANGED <<redirects, settings, data, not_found_log, next_id, logged,
                   callerVars>>

\* is_allowed
IsAllowedCall(path, user_agent) ==
    /\ result' = [op |-> "is_allowed", content |-> content, path |-> path,
                  user_agent |-> user_agent,
                  allowed |-> IsAllowed(content, path, user_agent)]
    /\ UNCHANGED <<redirects, settings, content, data, not_found_log, next_id,
                   logged, callerVars>>

LineAgentStar == <<"U", "s", "e", "r", "-", "a", "g", "e", "n", "t", ":", " ",
    "*">>

LineAgentGooglebot == <<"U", "s", "e", "r", "-", "a", "g", "e", "n", "t", ":",
    " ", "G", "o", "o", "g", "l", "e", "b", "o", "t">>

LineAllowRoot == <<"A", "l", "l", "o", "w", ":", " ", "/">>

LineAllowPublic == <<"A", "l", "l", "o", "w", ":", " ", "/", "p", "u", "b",
    "l", "i", "c">>

LineDisallowAdmin == <<"D", "i", "s", "a", "l", "l", "o", "w", ":", " ", "/",
    "a", "d", "m", "i", "n", "/">>

LineDisallowRoot == <<"D", "i", "s", "a", "l", "l", "o", "w", ":", " ", "/">>

LineDisallowNothing == <<"D", "i", "s", "a", "l", "l", "o", "w", ":">>

QueryLines ==
    {LineAgentStar, LineAgentGooglebot, LineAllowRoot, LineAllowPublic,
     LineDisallowAdmin, LineDisallowRoot, LineDisallowNothing}

Googlebot == <<"G", "o", "o", "g", "l", "e", "b", "o", "t">>

PathPage == <<"/", "p", "a", "g", "e">>

PathAdminSettings == <<"/", "a", "d", "m", "i", "n", "/", "s", "e", "t", "t",
    "i", "n", "g", "s">>

PathPublicX == <<"/", "p", "u", "b", "l", "i", "c", "/", "x">>

QueryPaths == {PathPage, PathAdminSettings, PathPublicX}

QueryAgents == {Googlebot, Star}

NextRobots ==
    \/ \E line \in QueryLines : PushLine(line)
    \/ \E path \in QueryPaths, user_agent \in QueryAgents :
          IsAllowedCall(path, user_agent)

SpecRobots == InitHits /\ [][NextRobots]_vars

\* some pattern of the list is a prefix of the path
SomePrefix(patterns, path) ==
    \E i \in 1..Len(patterns) : StartsWith(path, patterns[i])

\* some non-empty pattern of the list is a prefix of the path
SomeNonEmptyPrefix(patterns, path) ==
    \E i \in 1..Len(patterns) :
        patterns[i] # <<>> /\ StartsWith(path, patterns[i])

\* the lines of a text joined by "\n"
TextOf(lines) ==
    LET F[i \in 0..Len(lines)] ==
            IF i = 0 THEN <<>>
            ELSE IF i = 1 THEN lines[1]
            ELSE F[i - 1] \o <<"\n">> \o lines[i]
    IN F[Len(lines)]

PublicBlockText == TextOf(<<LineAgentStar, LineAllowPublic,
    LineDisallowRoot>>)

AdminBlockText == TextOf(<<LineAgentStar, LineDisallowAdmin, LineAllowRoot>>)

AdminPrefix == <<"/", "a", "d", "m", "i", "n", "/">>

\* C12: for the text "User-agent: *", "Disallow: /admin/", "Allow: /" and a
\* user agent with no block of its own, is_allowed is true for a path not
\* under /admin/ and false for a path under /admin/.
C12_AdminDisallowed ==
    (/\ result.op = "is_allowed"
     /\ result.content = AdminBlockText
     /\ result.user_agent = Googlebot)
        => result.allowed = ~ StartsWith(result.path, AdminPrefix)

\* the positions of the rules whose user_agent is exactly the given one
BlocksOf(rules, user_agent) ==
    {i \in 1..Len(rules) : rules[i].user_agent = user_agent}

\* C13: a block whose user_agent equals the queried one decides the answer
\* wherever it stands; the "*" block decides only when there is no such
\* block; with neither, the answer is allowed.
C13_ExactBlockDecides ==
    result.op = "is_allowed" =>
        LET rules == Parse(result.content).rules
            exact == BlocksOf(rules, result.user_agent)
            star  == BlocksOf(rules, Star)
        IN result.allowed =
              IF exact # {} THEN RuleAllows(rules[Min(exact)], result.path)
              ELSE IF star # {} THEN RuleAllows(rules[Min(star)], result.path)
              ELSE TRUE

\* ------------------------------------------------------------------------
\* A caller writes a robots.txt text line by line and has it parsed,
\* serialized again and validated
\* ------------------------------------------------------------------------

\* RobotsService::parse
ParseCall ==
    /\ result' = [op |-> "parse", content |-> content,
        robots |-> Parse(content)]
    /\ UNCHANGED <<redirects, settings, content, data, not_found_log, next_id,
                   logged, callerVars>>

\* generate_custom(parse(content)): the parsed document written out again
GenerateCustomCall ==
    /\ result' = [op |-> "to_string", content |-> content,
                  robots |-> Parse(content),
                  text |-> RobotsToString(Parse(content))]
    /\ UNCHANGED <<redirects, settings, content, data, not_found_log, next_id,
                   logged, callerVars>>

\* validate
ValidateCall ==
    /\ result' = [op |-> "validate", content |-> content] @@ Validate(content)
    /\ UNCHANGED <<redirects, settings, content, data, not_found_log, next_id,
                   logged, callerVars>>

LineAgentEmpty == <<"U", "s", "e", "r", "-", "a", "g", "e", "n", "t", ":">>

LineCrawlDelay5 == <<"C", "r", "a", "w", "l", "-", "d", "e", "l", "a", "y",
    ":", " ", "5">>

LineSitemapHttps == <<"S", "i", "t", "e", "m", "a", "p", ":", " ", "h", "t",
    "t", "p", "s", ":", "/", "/", "e", ".", "x", "/", "s">>

LineSitemapRelative == <<"S", "i", "t", "e", "m", "a", "p", ":", " ", "/",
    "s">>

LineDisallowRootSpaced == <<" ", " ", "d", "i", "s", "a", "l", "l", "o", "w",
    " ", ":", " ", "/", " ", " ">>

LineComment == <<"#", " ", "x">>

TextLines ==
    {LineAgentStar, LineAgentEmpty, LineAllowRoot, LineDisallowRoot,
     LineCrawlDelay5, LineSitemapHttps, LineSitemapRelative,
     LineDisallowRootSpaced, LineComment}

NextRobotsText ==
    \/ \E line \in TextLines : PushLine(line)
    \/ ParseCall
    \/ GenerateCustomCall
    \/ ValidateCall

SpecRobotsText == InitHits /\ [][NextRobotsText]_vars

\* C14: parsing the serialized output of a parsed text yields an equivalent
\* document: the same blocks in the same order with the same allow,
\* disallow and per-block crawl-delay, the same sitemaps and the same
\* document-level crawl-delay, and serializing both gives the same text.
C14_RoundTripStable ==
    result.op = "to_string" =>
        LET again == Parse(result.text)
        IN /\ again.rules = result.robots.rules
           /\ again.sitemaps = result.robots.sitemaps
           /\ again.crawl_delay = result.robots.crawl_delay
           /\ RobotsToString(again) = result.text

\* the serialized text alone is stable, whatever happens to the document
SerializedTextStable ==
    result.op = "to_string" =>
        RobotsToString(Parse(result.text)) = result.text

\* number of positions of a sequence that satisfy a test given as a set
CountOf(seq, S) == Cardinality({i \in 1..Len(seq) : i \in S})

EmptyAgentBlocks(robots) ==
    {i \in 1..Len(robots.rules) : robots.rules[i].user_agent = <<>>}

BadSitemaps(robots) ==
    {i \in 1..Len(robots.sitemaps) :
        /\ ~ StartsWith(robots.sitemaps[i], HttpPrefix)
        /\ ~ StartsWith(robots.sitemaps[i], HttpsPrefix)}

\* the (block, allow position) pairs whose path is also in the block's
\* disallow list
Conflicts(robots) ==
    UNION {{<<i, k>> : k \in {k \in 1..Len(robots.rules[i].allow) :
                \E j \in 1..Len(robots.rules[i].disallow) :
                    robots.rules[i].disallow[j] = robots.rules[i].allow[k]}} :
           i \in 1..Len(robots.rules)}

TextsOf(messages) == {messages[i].text : i \in 1..Len(messages)}

\* C20: validate collects problems: valid holds exactly when there is no
\* error; a document without rule blocks gets a warning and no error; each
\* block with an empty user-agent gets an error; each path both allowed and
\* disallowed in a block gets a warning and no error; each sitemap URL not
\* starting with http:// or https:// gets an error.
C20_ValidateCollects ==
    result.op = "validate" =>
        LET robots == Parse(result.content)
        IN /\ result.valid <=> (result.errors = <<>>)
           /\ Len(result.errors) =
                 Cardinality(EmptyAgentBlocks(robots))
                 + Cardinality(BadSitemaps(robots))
           /\ Len(result.warnings) =
                 (IF robots.rules = <<>> THEN 1 ELSE 0)
                 + Cardinality(Conflicts(robots))
           /\ (robots.rules = <<>>) <=>
                 ("No user-agent rules defined" \in TextsOf(result.warnings))
           /\ (EmptyAgentBlocks(robots) # {}) <=>
                 ("Empty user-agent found" \in TextsOf(result.errors))
           /\ (Conflicts(robots) # {}) <=>
                 ("Conflicting rules for path '{}' in {}"
                     \in TextsOf(result.warnings))
           /\ \A i \in 1..Len(robots.sitemaps) :
                 (i \in BadSitemaps(robots)) <=>
                    (\E k \in 1..Len(result.errors) :
                        /\ result.errors[k].text = "Invalid sitemap URL: {}"
                        /\ result.errors[k].args = <<robots.sitemaps[i]>>)

\* C20 witness: a text holding only a relative sitemap URL was validated:
\* one error for the URL, one warning for the missing rule blocks, not valid
C20_Witness ==
    /\ result.op = "validate"
    /\ result.content = LineSitemapRelative
    /\ ~ result.valid
    /\ Len(result.errors) = 1
    /\ result.errors[1].text = "Invalid sitemap URL: {}"
    /\ Len(result.warnings) = 1
    /\ result.warnings[1].text = "No user-agent rules defined"

\* ========================================================================
\* Content analysis: models/analysis.rs (SeoScore, TitleAnalysis,
\* MetaAnalysis, ContentAnalysis) and services/analysis.rs
\* (AnalysisService).  Texts are ASCII, so str::len is the number of
\* characters.  An issue is modelled by its severity and title; its
\* description is a fixed text per title.  The f32 quantities (keyword
\* density, sentence and word averages, Flesch score, percentages) are
\* compared as exact fractions.
\* ========================================================================

\* most internal links of an input
MaxLinks == 3

\* most images of an input
MaxImages == 2

\* the positions where a word starts: a non-whitespace character at the
\* start of the text or after whitespace
WordStarts(s) ==
    {i \in 1..Len(s) : ~ IsSpace(s[i]) /\ (i = 1 \/ IsSpace(s[i - 1]))}

\* str::split_whitespace().count()
WordCount(s) == Cardinality(WordStarts(s))

\* the sum of len() over the words of split_whitespace
WordChars(s) == Cardinality({i \in 1..Len(s) : ~ IsSpace(s[i])})

\* str::matches(p).count(): the non-overlapping occurrences, left to right;
\* the empty pattern matches at every position and at the end
CountMatches(s, p) ==
    IF p = <<>> THEN Len(s) + 1 ELSE Len(GreedyMatches(MatchPositions(s, p), 1, Len(p)))

\* str::matches(|c| ..).count() for a set of characters
CountChars(s, chars) == Cardinality({i \in 1..Len(s) : s[i] \in chars})

\* str::find(p): Some(byte offset of the first occurrence) or None
Find(s, p) ==
    LET at == MatchPositions(s, p)
    IN IF at = {} THEN <<>> ELSE <<Min(at) - 1>>

\* str::contains for a pattern that may be empty
ContainsStr(s, p) == Find(s, p) # <<>>

\* sum of the elements of a sequence of numbers
SumSeq(seq) ==
    LET F[i \in 0..Len(seq)] == IF i = 0 THEN 0 ELSE F[i - 1] + seq[i]
    IN F[Len(seq)]

\* i32::max(0) and i32::clamp
AtLeastZero(n) == IF n < 0 THEN 0 ELSE n

Clamp(n, lo, hi) == IF n < lo THEN lo ELSE IF n > hi THEN hi ELSE n

\* i32 division truncates toward zero
TruncDiv(a, b) == IF a >= 0 THEN a \div b ELSE -((-a) \div b)

\* AnalysisIssue::new
Issue(severity, title) == [severity |-> severity, title |-> title]

\* the issues pushed and the penalties subtracted by a list of checks, each
\* <<fires, severity, title, penalty>>, in the order they are made
IssuesOf(checks) ==
    LET F[i \in 0..Len(checks)] ==
            IF i = 0 THEN <<>>
            ELSE IF checks[i][1]
            THEN Append(F[i - 1], Issue(checks[i][2], checks[i][3]))
            ELSE F[i - 1]
    IN F[Len(checks)]

\* the penalties of the checks counted in favour of the score
PenaltyAsBonus(checks) ==
    0 - SumSeq([i \in 1..Len(checks) |-> IF checks[i][1] THEN checks[i][4] ELSE 0])

PenaltyOf(checks) ==
    SumSeq([i \in 1..Len(checks) |-> IF checks[i][1] THEN checks[i][4] ELSE 0])

\* SeoScore::new
SeoScoreNew(score) ==
    LET clamped == Clamp(score, 0, 100)
    IN [score |-> clamped,
        grade |-> IF clamped >= 90 /\ clamped <= 100 THEN "Excellent"
                  ELSE IF clamped >= 70 /\ clamped <= 89 THEN "Good"
                  ELSE IF clamped >= 50 /\ clamped <= 69 THEN "Fair"
                  ELSE IF clamped >= 30 /\ clamped <= 49 THEN "Poor"
                  ELSE "Bad"]

\* TitleAnalysis::analyze taking an absent keyword for a late one as well
TitleAnalyzeLateWhenAbsent(title, focus_keyword) ==
    LET length == Len(title)
        pos == IF focus_keyword # <<>>
               THEN Let(LAMBDA lower_title :
                            Find(lower_title, ToLower(focus_keyword[1])),
                        ToLower(title))
               ELSE <<>>
        has_keyword == pos # <<>>
        checks == <<
            <<length < 30, "Warning", "Title is too short", 15>>,
            <<length >= 30 /\ length > 60, "Warning", "Title is too long",
                10>>,
            <<focus_keyword # <<>> /\ pos = <<>>, "Error",
              "Focus keyword not in title", 25>>,
            <<focus_keyword # <<>> /\ (pos = <<>> \/ pos[1] > 20), "Info",
              "Keyword not at start of title", 5>> >>
    IN [score |-> AtLeastZero(100 - PenaltyOf(checks)),
        title |-> title,
        length |-> length,
        has_focus_keyword |-> has_keyword,
        keyword_position |-> pos,
        issues |-> IssuesOf(checks)]

\* TitleAnalysis::analyze; focus_keyword is an Option
TitleAnalyze(title, focus_keyword) ==
    LET length == Len(title)
        pos == IF focus_keyword # <<>>
               THEN Let(LAMBDA lower_title :
                            Find(lower_title, ToLower(focus_keyword[1])),
                        ToLower(title))
               ELSE <<>>
        has_keyword == pos # <<>>
        checks == <<
            <<length < 30, "Warning", "Title is too short", 15>>,
            <<length >= 30 /\ length > 60, "Warning", "Title is too long",
                10>>,
            <<focus_keyword # <<>> /\ pos = <<>>, "Error",
              "Focus keyword not in title", 25>>,
            <<has_keyword /\ pos[1] > 20, "Info",
              "Keyword not at start of title", 5>> >>
    IN [score |-> AtLeastZero(100 - PenaltyOf(checks)),
        title |-> title,
        length |-> length,
        has_focus_keyword |-> has_keyword,
        keyword_position |-> pos,
        issues |-> IssuesOf(checks)]

\* a missing description scored like a short one
MetaAnalyzeNoShortCircuit(description, focus_keyword) ==
    [score |-> 85, description |-> <<>>, length |-> 0,
     has_focus_keyword |-> FALSE,
     issues |-> <<Issue("Warning", "Meta description is too short")>>]

\* MetaAnalysis::analyze; description and focus_keyword are Options
MetaAnalyze(description, focus_keyword) ==
    IF description = <<>> \/ description[1] = <<>>
    THEN [score |-> 0, description |-> <<>>, length |-> 0,
          has_focus_keyword |-> FALSE,
          issues |-> <<Issue("Error", "No meta description")>>]
    ELSE
    LET length == Len(description[1])
        has_keyword ==
            /\ focus_keyword # <<>>
            /\ Let(LAMBDA lower : ContainsStr(lower, ToLower(focus_keyword[1])),
                   ToLower(description[1]))
        checks == <<
            <<length < 120, "Warning", "Meta description is too short", 15>>,
            <<length >= 120 /\ length > 160, "Warning",
              "Meta description is too long", 10>>,
            <<focus_keyword # <<>> /\ ~ has_keyword, "Warning",
              "Focus keyword not in meta description", 15>> >>
    IN [score |-> AtLeastZero(100 - PenaltyOf(checks)),
        description |-> description,
        length |-> length,
        has_focus_keyword |-> has_keyword,
        issues |-> IssuesOf(checks)]

SentenceEnds == {".", "!", "?"}

\* number of lines whose trimmed text starts with the marker
HeadingLines(text, marker) ==
    LET ls == Lines(text)
    IN Cardinality({i \in 1..Len(ls) : StartsWith(Trim(ls[i]), marker)})

\* the counts ContentAnalysis::analyze takes from the text.  The if / else
\* if chain over the heading markers never matters: a line starting with
\* one marker starts with no other
ContentCounts(text) ==
    [word_count |-> WordCount(text),
     paragraph_count |->
        Let(LAMBDA paragraphs :
                Cardinality({i \in 1..Len(paragraphs) :
                                Trim(paragraphs[i]) # <<>>}),
            SplitStr(text, <<"\n", "\n">>)),
     sentence_count |-> CountChars(text, SentenceEnds),
     h1 |-> HeadingLines(text, <<"#", " ">>),
     h2 |-> HeadingLines(text, <<"#", "#", " ">>),
     h3 |-> HeadingLines(text, <<"#", "#", "#", " ">>),
     h4 |-> HeadingLines(text, <<"#", "#", "#", "#", " ">>)]

\* ContentAnalysis::analyze, from the counts n
ContentScored(n, min_word_count) ==
    LET checks == <<
            <<n.word_count < min_word_count, "Warning", "Content is too short", 20>>,
            <<n.h1 = 0, "Error", "No H1 heading found", 20>>,
            <<n.h1 > 1, "Warning", "Multiple H1 headings", 10>>,
            <<n.h2 = 0 /\ n.word_count > 300, "Info", "No subheadings used", 5>> >>
    IN [score |-> AtLeastZero(100 - PenaltyOf(checks)),
        word_count |-> n.word_count,
        paragraph_count |-> n.paragraph_count,
        sentence_count |-> n.sentence_count,
        heading_count |-> [h1 |-> n.h1, h2 |-> n.h2, h3 |-> n.h3, h4 |-> n.h4,
                           h5 |-> 0, h6 |-> 0],
        has_h1 |-> n.h1 > 0,
        issues |-> IssuesOf(checks)]

\* ContentAnalysis::analyze
ContentAnalyze(text, min_word_count) ==
    Let(LAMBDA n : ContentScored(n, min_word_count), ContentCounts(text))

\* AnalysisSettings::default; the densities are whole percents
AnalysisSettingsDefault ==
    [enabled |-> TRUE, min_word_count |-> 300, target_keyword_density |-> 2,
     max_keyword_density |-> 3, check_readability |-> TRUE,
     check_links |-> TRUE, check_images |-> TRUE]

\* the keyword analysis of an input without focus keyword, scored from 100
KeywordsUnsetFromFull == 100

\* the score analyze_keywords assigns when no focus keyword is set
KeywordsUnsetScore == 50

\* what analyze_keywords finds out about a focus keyword kw;
\* kw_density is the fraction density_num / density_den
KeywordFacts(input, kw) ==
    Let(LAMBDA kw_lower :
        Let(LAMBDA kw_count :
            Let(LAMBDA word_count :
                [kw_count |-> kw_count,
                 density_num |-> IF word_count > 0 THEN kw_count * 100 ELSE 0,
                 density_den |-> IF word_count > 0 THEN word_count ELSE 1,
                 in_first |->
                    Let(LAMBDA first_para : ContainsStr(first_para, kw_lower),
                        ToLower(SplitStr(input.content, <<"\n", "\n">>)[1])),
                 in_headings |->
                    \E i \in 1..Len(input.headings) :
                        ContainsStr(ToLower(input.headings[i]), kw_lower),
                 in_url |-> ContainsStr(ToLower(input.url), kw_lower)],
                WordCount(input.content)),
            Let(LAMBDA content_lower : CountMatches(content_lower, kw_lower),
                ToLower(input.content))),
        ToLower(kw))

\* the Some(kw) arm of analyze_keywords, from the facts f
KeywordsScored(sett, input, f) ==
    LET low == 2 * f.density_num < sett.target_keyword_density * f.density_den
        high == f.density_num > sett.max_keyword_density * f.density_den
        checks == <<
            <<f.kw_count = 0, "Error", "Focus keyword not found", 30>>,
            <<f.kw_count # 0 /\ low, "Warning", "Keyword density too low", 15>>,
            <<f.kw_count # 0 /\ ~ low /\ high, "Warning",
              "Keyword density too high", 10>>,
            <<~ f.in_first, "Warning", "Keyword not in first paragraph", 10>>,
            <<~ f.in_headings, "Info", "Keyword not in subheadings", 5>>,
            <<~ f.in_url, "Info", "Keyword not in URL", 5>> >>
    IN [score |-> AtLeastZero(100 - PenaltyOf(checks)),
        focus_keyword |-> input.focus_keyword,
        keyword_count |-> f.kw_count,
        density_num |-> f.density_num, density_den |-> f.density_den,
        in_first_paragraph |-> f.in_first, in_headings |-> f.in_headings,
        in_url |-> f.in_url,
        issues |-> IssuesOf(checks)]

\* AnalysisService::analyze_keywords
AnalyzeKeywords(sett, input) ==
    IF input.focus_keyword = <<>>
    THEN [score |-> AtLeastZero(KeywordsUnsetScore),
          focus_keyword |-> <<>>, keyword_count |-> 0,
          density_num |-> 0, density_den |-> 1,
          in_first_paragraph |-> FALSE, in_headings |-> FALSE,
          in_url |-> FALSE,
          issues |-> <<Issue("Warning", "No focus keyword set")>>]
    ELSE Let(LAMBDA f : KeywordsScored(sett, input, f),
             KeywordFacts(input, input.focus_keyword[1]))

PassivePatterns ==
    <<<<"w", "a", "s", " ">>, <<"w", "e", "r", "e", " ">>, <<"b", "e", "e",
        "n", " ">>, <<"b", "e", "i", "n", "g", " ">>, <<"i", "s", " ", "b",
        "e", "i", "n", "g">>, <<"a", "r", "e", " ", "b", "e", "i", "n",
        "g">>>>

Transitions ==
    <<<<"h", "o", "w", "e", "v", "e", "r">>, <<"t", "h", "e", "r", "e", "f",
        "o", "r", "e">>, <<"m", "o", "r", "e", "o", "v", "e", "r">>, <<"f",
        "u", "r", "t", "h", "e", "r", "m", "o", "r", "e">>, <<"a", "d", "d",
        "i", "t", "i", "o", "n", "a", "l", "l", "y">>,
      <<"c", "o", "n", "s", "e", "q", "u", "e", "n", "t", "l", "y">>, <<"m",
          "e", "a", "n", "w", "h", "i", "l", "e">>, <<"n", "e", "v", "e", "r",
          "t", "h", "e", "l", "e", "s", "s">>, <<"a", "l", "s", "o">>, <<"f",
          "i", "r", "s", "t">>,
      <<"s", "e", "c", "o", "n", "d">>, <<"f", "i", "n", "a", "l", "l",
          "y">>>>

\* sum over the patterns of their occurrences in the lower-cased text
PatternCount(text, patterns) ==
    Let(LAMBDA lower :
            SumSeq([i \in 1..Len(patterns) |-> CountMatches(lower, patterns[i])]),
        ToLower(text))

\* the counts analyze_readability takes from the text
ReadabilityCounts(text) ==
    [word_count |-> WordCount(text),
     sentence_count |->
        Let(LAMBDA counted : IF counted < 1 THEN 1 ELSE counted,
            CountChars(text, SentenceEnds)),
     total_chars |-> WordChars(text),
     passive_count |-> PatternCount(text, PassivePatterns),
     transition_count |-> PatternCount(text, Transitions)]

\* AnalysisService::analyze_readability, from the counts n.  With w words,
\* s sentences (at least 1), c characters in words and m = max(w, 1):
\*   avg_sentence = w / s, avg_word = c / m,
\*   flesch = 206.835 - 1.015 * w / s - 84.6 * (c / m) / 5;
\* flesch_scaled is flesch * 1000 * s * m, the percentages are fractions
\* over s
ReadabilityScored(n) ==
    LET word_div == IF n.word_count < 1 THEN 1 ELSE n.word_count
        scale == n.sentence_count * word_div
        flesch_scaled == 206835 * scale - 1015 * n.word_count * word_div
                         - 16920 * n.total_chars * n.sentence_count
        checks == <<
            <<n.word_count > 25 * n.sentence_count, "Warning",
              "Sentences are too long", 15>>,
            <<flesch_scaled < 30000 * scale, "Warning",
              "Content is very difficult to read", 20>>,
            <<flesch_scaled >= 30000 * scale /\ flesch_scaled < 50000 * scale,
              "Info", "Content is fairly difficult to read", 10>>,
            <<n.passive_count * 100 > 20 * n.sentence_count, "Info",
              "High use of passive voice", 5>>,
            <<n.transition_count * 100 < 20 * n.sentence_count
              /\ n.sentence_count > 3,
              "Info", "Few transition words", 5>> >>
    IN [score |-> AtLeastZero(100 - PenaltyOf(checks)),
        word_count |-> n.word_count,
        sentence_count |-> n.sentence_count,
        total_chars |-> n.total_chars,
        flesch_scaled |-> flesch_scaled,
        passive_count |-> n.passive_count,
        transition_count |-> n.transition_count,
        issues |-> IssuesOf(checks)]

\* AnalysisService::analyze_readability
AnalyzeReadability(text) == Let(ReadabilityScored, ReadabilityCounts(text))

\* AnalysisService::analyze_links
AnalyzeLinks(input) ==
    LET checks == <<
            <<input.internal_links = 0, "Warning", "No internal links", 20>>,
            <<input.internal_links # 0 /\ input.internal_links < 3, "Info",
              "Few internal links", 10>>,
            <<input.external_links = 0, "Info", "No outbound links", 5>>,
            <<input.broken_links # <<>>, "Error", "Broken links detected",
                25>> >>
    IN [score |-> AtLeastZero(100 - PenaltyOf(checks)),
        internal_links |-> input.internal_links,
        external_links |-> input.external_links,
        broken_links |-> input.broken_links,
        nofollow_links |-> input.nofollow_links,
        issues |-> IssuesOf(checks)]

\* AnalysisService::analyze_images; an image is [src, alt] with alt an Option
AnalyzeImages(input) ==
    LET images == input.images
        without_alt ==
            Cardinality({i \in 1..Len(images) :
                            images[i].alt = <<>> \/ images[i].alt[1] = <<>>})
        with_keyword ==
            IF input.focus_keyword # <<>>
            THEN Cardinality({i \in 1..Len(images) :
                    /\ images[i].alt # <<>>
                    /\ ContainsStr(ToLower(images[i].alt[1]),
                                   ToLower(input.focus_keyword[1]))})
            ELSE 0
        checks == <<
            <<images = <<>>, "Info", "No images in content", 10>>,
            <<images # <<>> /\ without_alt > 0, "Warning",
              "Images missing alt text", 15>>,
            <<images # <<>> /\ with_keyword = 0 /\ input.focus_keyword # <<>>,
              "Info", "No images contain focus keyword", 5>> >>
    IN [score |-> AtLeastZero(100 - PenaltyOf(checks)),
        total_images |-> Len(images),
        images_with_alt |->
            Cardinality({i \in 1..Len(images) :
                            images[i].alt # <<>> /\ images[i].alt[1] # <<>>}),
        images_with_keyword |-> 0,
        large_images |-> input.large_images,
        issues |-> IssuesOf(checks)]

\* AnalysisService::analyze_technical
AnalyzeTechnical(input) ==
    LET checks == <<
            <<~ input.has_canonical, "Warning", "No canonical URL", 15>>,
            <<~ input.has_open_graph, "Info", "Missing OpenGraph tags", 5>>,
            <<~ input.has_twitter_card, "Info", "Missing Twitter Card tags",
                5>>,
            <<~ input.has_schema, "Info", "No schema markup", 10>> >>
    IN [score |-> AtLeastZero(100 - PenaltyOf(checks)),
        has_canonical |-> input.has_canonical,
        has_robots_meta |-> input.has_robots_meta,
        has_open_graph |-> input.has_open_graph,
        has_twitter_card |-> input.has_twitter_card,
        has_schema |-> input.has_schema,
        page_load_time |-> input.page_load_time,
        mobile_friendly |-> input.mobile_friendly,
        issues |-> IssuesOf(checks)]

\* a suggestion of generate_suggestions
Suggestion(category, priority, title) ==
    [category |-> category, priority |-> priority, title |-> title]

\* generate_suggestions with a fifth trigger, on the keyword score
SuggestionsWithKeywordScore(sett, title, meta, text, keyword) ==
    (IF title.score < 50
     THEN <<Suggestion("Title", "High", "Improve your title")>> ELSE <<>>)
    \o (IF meta.score < 50
        THEN <<Suggestion("Meta Description", "High",
            "Add meta description")>>
        ELSE <<>>)
    \o (IF keyword.score <= 50 /\ keyword.focus_keyword # <<>>
        THEN <<Suggestion("Keywords", "High", "Use your focus keyword")>>
        ELSE <<>>)
    \o (IF text.word_count < sett.min_word_count
        THEN <<Suggestion("Content", "Medium",
            "Add more content")>> ELSE <<>>)
    \o (IF keyword.focus_keyword = <<>>
        THEN <<Suggestion("Keywords", "Medium", "Set a focus keyword")>>
        ELSE <<>>)

\* AnalysisService::generate_suggestions
GenerateSuggestions(sett, title, meta, text, keyword) ==
    (IF title.score < 50
     THEN <<Suggestion("Title", "High", "Improve your title")>> ELSE <<>>)
    \o (IF meta.score < 50
        THEN <<Suggestion("Meta Description", "High",
            "Add meta description")>>
        ELSE <<>>)
    \o (IF text.word_count < sett.min_word_count
        THEN <<Suggestion("Content", "Medium",
            "Add more content")>> ELSE <<>>)
    \o (IF keyword.focus_keyword = <<>>
        THEN <<Suggestion("Keywords", "Medium", "Set a focus keyword")>>
        ELSE <<>>)

\* the average rounded to the nearest integer
RoundedAverage(scores) == (2 * SumSeq(scores) + Len(scores)) \div (2 * Len(scores))

\* scores.iter().sum::<i32>() / scores.len() as i32
Average(scores) == TruncDiv(SumSeq(scores), Len(scores))

\* the SeoAnalysis analyze builds from the eight analyses a, but for id and
\* analyzed_at
AnalysisOf(sett, content_id, a) ==
    [content_id |-> content_id,
     overall_score |->
        SeoScoreNew(Average([i \in 1..Len(a) |-> a[i].score])),
     title_analysis |-> a[1],
     meta_analysis |-> a[2],
     content_analysis |-> a[3],
     keyword_analysis |-> a[4],
     readability_analysis |-> a[5],
     link_analysis |-> a[6],
     image_analysis |-> a[7],
     technical_analysis |-> a[8],
     suggestions |-> GenerateSuggestions(sett, a[1], a[2], a[3], a[4])]

\* AnalysisService::analyze, but for id and analyzed_at
Analyze(sett, content_id, input) ==
    Let(LAMBDA a : AnalysisOf(sett, content_id, a),
        <<TitleAnalyze(input.title, input.focus_keyword),
          MetaAnalyze(input.meta_description, input.focus_keyword),
          ContentAnalyze(input.content, sett.min_word_count),
          AnalyzeKeywords(sett, input),
          AnalyzeReadability(input.content),
          AnalyzeLinks(input),
          AnalyzeImages(input),
          AnalyzeTechnical(input)>>)

\* ------------------------------------------------------------------------
\* A caller builds an AnalysisInput and has it analyzed by
\* AnalysisService::new()
\* ------------------------------------------------------------------------

\* n copies of a text
Repeat(s, n) == [i \in 1..(n * Len(s)) |-> s[((i - 1) % Len(s)) + 1]]

Widgets == <<"w", "i", "d", "g", "e", "t", "s">>

TitleShort == <<"S", "h", "o", "r", "t">>

\* 40 characters, the keyword first
TitleKeywordFirst == <<"W", "i", "d", "g", "e", "t", "s",
    " ">> \o Repeat(<<"x">>, 32)

\* 63 characters, the keyword at offset 26
TitleKeywordLate == Repeat(<<"x">>, 25) \o <<" ", "w", "i", "d", "g", "e",
    "t", "s">> \o Repeat(<<"y">>, 30)

Titles == {<<>>, TitleShort, TitleKeywordFirst, TitleKeywordLate}

\* 130 characters with the keyword, 170 characters without it
MetaKeyword == <<"W", "i", "d", "g", "e", "t", "s", " ">> \o Repeat(<<"m">>,
    122)

MetaLong == Repeat(<<"m">>, 170)

MetaDescriptions == {<<>>, <<<<>>>>, <<<<"a", "b", "o", "u", "t">>>>,
    <<MetaKeyword>>, <<MetaLong>>}

\* one H1 with the keyword, two paragraphs, passive voice, a transition
ContentSmall ==
    <<"#", " ", "W", "i", "d", "g", "e", "t", "s", "\n", "\n", "W", "i", "d",
        "g", "e", "t", "s", " ", "w", "e", "r", "e", " ", "m", "a", "d", "e",
        ".", " ", "H", "o", "w", "e", "v", "e", "r", " ", "i", "t", " ", "w",
        "a", "s", " ", "s", "o", ".", " ", "I", "t", " ", "i", "s", ".", " ",
        "G", "o", "!">>

\* 301 words without sentence end, the keyword once
ContentLong == <<"w", "i", "d", "g", "e", "t", "s", " ">> \o Repeat(<<"w",
    " ">>, 300)

ContentTwoH1 == <<"#", " ", "a", "\n", "#", " ", "b", "\n", "#", "#", " ",
    "c">>

\* one sentence of one word of 10 and of 21 characters
ContentMidWord == <<"a", "b", "c", "d", "e", "f", "g", "h", "i", ".">>

ContentHardWord == <<"i", "n", "t", "e", "r", "n", "a", "t", "i", "o", "n",
    "a", "l", "i", "z", "a", "t", "i", "o", "n", ".">>

Contents ==
    {<<>>, ContentSmall, ContentLong, ContentTwoH1, ContentMidWord,
     ContentHardWord}

FocusKeywords == {<<>>, <<Widgets>>, <<<<>>>>}

HeadingLists == {<<>>, <<<<"A", "b", "o", "u", "t", " ", "w", "i", "d", "g",
    "e", "t", "s">>>>}

Urls == {<<"/", "p", "o", "s", "t">>, <<"/", "w", "i", "d", "g", "e", "t",
    "s">>}

Alts == {<<>>, <<<<>>>>, <<<<"w", "i", "d", "g", "e", "t", "s", " ", "p", "i",
    "c">>>>}

\* all sequences over S of length at most n
SeqsUpTo(S, n) == UNION {[1..k -> S] : k \in 0..n}

ImageLists == SeqsUpTo({[src |-> <<"i", ".", "p", "n", "g">>,
    alt |-> a] : a \in Alts}, MaxImages)

\* the AnalysisInput of the end-to-end scenario: title "Short", focus
\* keyword "widgets", nothing else
InputScenario ==
    [title |-> TitleShort, meta_description |-> <<>>, content |-> <<>>,
     url |-> <<"/", "p", "o", "s", "t">>, focus_keyword |-> <<Widgets>>,
         headings |-> <<>>,
     internal_links |-> 0, external_links |-> 0, nofollow_links |-> 0,
     broken_links |-> <<>>, images |-> <<>>, large_images |-> <<>>,
     has_canonical |-> FALSE, has_robots_meta |-> FALSE,
     has_open_graph |-> FALSE, has_twitter_card |-> FALSE,
     has_schema |-> FALSE, page_load_time |-> <<>>, mobile_friendly |-> FALSE]

\* the inputs that differ from the scenario in their texts
TextInputs ==
    {[InputScenario EXCEPT !.title = t, !.meta_description = m, !.content = c,
                           !.focus_keyword = k, !.headings = h, !.url = u] :
        t \in Titles, m \in MetaDescriptions, c \in Contents,
        k \in FocusKeywords, h \in HeadingLists, u \in Urls}

\* the inputs that differ from the scenario in their links and technical
\* signals
SignalInputs ==
    {[InputScenario EXCEPT !.internal_links = il, !.external_links = el,
                           !.broken_links = bl,
                           !.has_canonical = tech[1], !.has_open_graph = tech[2],
                           !.has_twitter_card = tech[3], !.has_schema = tech[4]] :
        il \in 0..MaxLinks, el \in 0..1, bl \in {<<>>, <<<<"/", "g", "o", "n", "e">>>>},
        tech \in BOOLEAN \X BOOLEAN \X BOOLEAN \X BOOLEAN}

\* the inputs that differ from the scenario in their images and focus keyword
ImageInputs ==
    {[InputScenario EXCEPT !.images = im, !.focus_keyword = k] :
        im \in ImageLists, k \in {<<>>, <<Widgets>>}}

AnalysisInputs == TextInputs \cup SignalInputs \cup ImageInputs

\* the caller builds its AnalysisInput
BuildInput(input) ==
    /\ data = <<>>
    /\ data' = <<input>>
    /\ result' = [op |-> "AnalysisInput"]
    /\ UNCHANGED <<redirects, settings, content, not_found_log, next_id,
        logged,
                   callerVars>>

\* AnalysisService::new().analyze(content_id, data), once for an input; id
\* is the next Uuid
AnalyzeCall(content_id) ==
    /\ data # <<>>
    /\ result.op = "AnalysisInput"
    /\ result' = [op |-> "analyze", id |-> next_id, input |-> data[1]]
                 @@ Analyze(AnalysisSettingsDefault, content_id, data[1])
    /\ next_id' = next_id + 1
    /\ UNCHANGED <<redirects, settings, content, data, not_found_log, logged,
                   callerVars>>

NextAnalysis ==
    \/ \E input \in AnalysisInputs : BuildInput(input)
    \/ AnalyzeCall(0)

SpecAnalysis == InitHits /\ [][NextAnalysis]_vars

\* the eight sub-scores of an analysis, in the order analyze sums them
SubScores(r) ==
    <<r.title_analysis.score, r.meta_analysis.score, r.content_analysis.score,
      r.keyword_analysis.score, r.readability_analysis.score,
      r.link_analysis.score, r.image_analysis.score,
      r.technical_analysis.score>>

\* C15: every sub-score and the overall score of an analysis lie in
\* [0, 100], whatever the input.
C15_ScoresInRange ==
    result.op = "analyze" =>
        /\ \A i \in 1..8 : SubScores(result)[i] \in 0..100
        /\ result.overall_score.score \in 0..100

\* C15 witness: the input of empty texts, zero counts and absent options was
\* analyzed; Meta scored 0, Readability 100, the overall score lies between
C15_Witness ==
    /\ result.op = "analyze"
    /\ result.input = [InputScenario EXCEPT !.title = <<>>,
                                            !.focus_keyword = <<>>]
    /\ result.meta_analysis.score = 0
    /\ result.readability_analysis.score = 100
    /\ result.overall_score.score \in 1..99

\* C16: with a missing or empty description the meta analysis has score 0
\* and exactly one issue, of severity Error, whatever the focus keyword.
C16_MetaShortCircuit ==
    (/\ result.op = "analyze"
     /\ result.input.meta_description \in {<<>>, <<<<>>>>})
        => /\ result.meta_analysis.score = 0
           /\ Len(result.meta_analysis.issues) = 1
           /\ result.meta_analysis.issues[1].severity = "Error"

\* C16 witness: an empty description was analyzed with a focus keyword set
C16_Witness ==
    /\ result.op = "analyze"
    /\ result.input.meta_description = <<<<>>>>
    /\ result.input.focus_keyword = <<Widgets>>
    /\ result.meta_analysis.score = 0
    /\ result.meta_analysis.issues = <<Issue("Error", "No meta description")>>

\* C17: without a focus keyword the keyword analysis has score 50 and
\* exactly one issue, of severity Warning, whatever the content, the
\* headings and the URL.
C17_KeywordShortCircuit ==
    (/\ result.op = "analyze"
     /\ result.input.focus_keyword = <<>>)
        => /\ result.keyword_analysis.score = 50
           /\ Len(result.keyword_analysis.issues) = 1
           /\ result.keyword_analysis.issues[1].severity = "Warning"

\* C17 witness: a text with headings and the URL "/widgets" was analyzed
\* without focus keyword
C17_Witness ==
    /\ result.op = "analyze"
    /\ result.input.focus_keyword = <<>>
    /\ result.input.content = ContentSmall
    /\ result.input.headings # <<>>
    /\ result.input.url = <<"/", "w", "i", "d", "g", "e", "t", "s">>
    /\ result.keyword_analysis.score = 50

\* the grade the breakpoints give a score
GradeOf(score) ==
    CASE score \in 90..100 -> "Excellent"
      [] score \in 70..89 -> "Good"
      [] score \in 50..69 -> "Fair"
      [] score \in 30..49 -> "Poor"
      [] OTHER -> "Bad"

\* C18: the overall score is the sum of the eight sub-scores divided by 8
\* with the fraction dropped, and its grade follows the breakpoints 90, 70,
\* 50 and 30.
C18_OverallIsTruncatedAverage ==
    result.op = "analyze" =>
        LET sum == SumSeq(SubScores(result))
            overall == result.overall_score
        IN /\ 8 * overall.score <= sum
           /\ sum < 8 * overall.score + 8
           /\ overall.grade = GradeOf(overall.score)

\* C18 witness: the scenario input was analyzed; its sub-scores sum to 500,
\* an average of 62.5, and the overall score is 62, grade Fair
C18_Witness ==
    /\ result.op = "analyze"
    /\ result.input = InputScenario
    /\ SumSeq(SubScores(result)) = 500
    /\ result.overall_score = [score |-> 62, grade |-> "Fair"]

\* C19: for title "Short", focus keyword "widgets", no meta description and
\* empty content the scores are Title 60, Meta 0, Content 60 and Keyword
\* 70, and the overall score is the truncated average of the eight
\* sub-scores.
C19_EndToEndScenario ==
    (/\ result.op = "analyze"
     /\ result.input.title = TitleShort
     /\ result.input.focus_keyword = <<Widgets>>
     /\ result.input.meta_description = <<>>
     /\ result.input.content = <<>>)
        => /\ result.title_analysis.score = 60
           /\ result.meta_analysis.score = 0
           /\ result.content_analysis.score = 60
           /\ result.keyword_analysis.score = 70
           /\ result.overall_score.score = SumSeq(SubScores(result)) \div 8

\* in the scenario the keyword score is 60 at most: the missing first
\* paragraph always costs 10 more
ScenarioKeywordScore ==
    (/\ result.op = "analyze"
     /\ result.input.title = TitleShort
     /\ result.input.focus_keyword = <<Widgets>>
     /\ result.input.meta_description = <<>>
     /\ result.input.content = <<>>)
        => /\ result.title_analysis.score = 60
           /\ result.meta_analysis.score = 0
           /\ result.content_analysis.score = 60
           /\ result.keyword_analysis.score \in {50, 55, 60}
           /\ result.overall_score.score = SumSeq(SubScores(result)) \div 8

\* ========================================================================
\* The redirect subsystem again: letter case, the activation toggle, frame
\* conditions and the 404 log under every operation of the service
\* ========================================================================

\* ------------------------------------------------------------------------
\* Specification SpecCase: rules of every match type whose source has an
\* upper-case letter, looked up under both values of case_insensitive
\* ------------------------------------------------------------------------

PatternUpperA == <<"^", "/", "A", "$">>

CaseShapes ==
    {[source |-> UrlUpperA,  target |-> UrlX, match_type |-> "Exact",
           is_regex |-> FALSE],
     [source |-> UrlUpperA,  target |-> UrlX, match_type |-> "Prefix",
           is_regex |-> FALSE],
     [source |-> <<"A">>,       target |-> UrlX, match_type |-> "Contains",
         is_regex |-> FALSE],
     [source |-> PatternUpperA, target |-> UrlX, match_type |-> "Regex",
         is_regex |-> TRUE]}

CaseUrls == {UrlA, UrlUpperA, UrlB}

NextCase ==
    \/ \E shape \in CaseShapes : AddBuilt(shape, TRUE)
    \/ \E url \in CaseUrls : FindRedirectCall(url)

SpecCase == InitMatch /\ [][NextCase]_vars

\* a rule's match type applied to the URL and the source pattern, both
\* lower-cased first when fold is set
FoldedAccepts(r, url, fold) ==
    LET u == IF fold THEN ToLower(url) ELSE url
        p == IF fold THEN ToLower(r.source_url) ELSE r.source_url
    IN CASE r.match_type = "Exact"    -> u = p
         [] r.match_type = "Prefix"   -> \E k \in 0..Len(u) : SubSeq(u, 1,
             k) = p
         [] r.match_type = "Contains" ->
                \E i \in 1..(Len(u) + 1), j \in 0..Len(u) : SubSeq(u, i,
                    j) = p
         [] r.match_type = "Regex"    ->
                RegexNew(p).ok /\ IsMatch(RegexNew(p), u)

FoldedMatches(url, fold) ==
    {j \in 1..Len(redirects) :
        redirects[j].is_active /\ FoldedAccepts(redirects[j], url, fold)}

\* C21: with case_insensitive on, find_redirect compares the lower-cased URL
\* with the lower-cased source pattern for every match type, Regex
\* included; with it off, the URL and the pattern as they are.
C21_CaseFoldedEveryMatchType ==
    result.op = "find_redirect" =>
        LET hit == FoldedMatches(result.url, settings.case_insensitive)
        IN result.found = IF hit = {} THEN 0 ELSE Min(hit)

\* the same restricted to the match types Exact, Prefix and Contains
CaseFoldedLiteralTypes ==
    (/\ result.op = "find_redirect"
     /\ \A j \in 1..Len(redirects) : redirects[j].match_type # "Regex")
        => LET hit == FoldedMatches(result.url, settings.case_insensitive)
           IN result.found = IF hit = {} THEN 0 ELSE Min(hit)

\* ------------------------------------------------------------------------
\* Specification SpecLogCase: the 404 log called with URLs that differ in
\* letter case only
\* ------------------------------------------------------------------------

CaseLogUrls == {UrlA, UrlUpperA, UrlB}

\* RedirectService::new and with_settings, the 404 map ready for the URLs
\* of CaseLogUrls
InitLogCase ==
    /\ redirects = <<>>
    /\ settings \in [log_404s : BOOLEAN, case_insensitive : BOOLEAN]
    /\ not_found_log = [u \in CaseLogUrls |-> <<>>]
    /\ next_id = 1
    /\ result = [op |-> "new"]
    /\ held = <<>>
    /\ borrower = 0
    /\ loaded = [c \in Callers |-> NotLoaded]
    /\ calls = [c \in Callers |-> 0]
    /\ hits = [i \in 1..MaxIds |-> 0]
    /\ logged = [u \in CaseLogUrls |-> 0]
    /\ content = <<>>
    /\ data = <<>>

NextLogCase ==
    \/ \E url \in CaseLogUrls, who \in LogCallers : Log404(url, who[1],
        who[2])
    \/ \E url \in CaseLogUrls : Ignore404(url)

SpecLogCase == InitLogCase /\ [][NextLogCase]_vars

\* the entries of the 404 map
LogEntries == {not_found_log[u][1] : u \in {k \in DOMAIN not_found_log : HasLog(k)}}

\* C22: no two entries of the 404 log have URLs with the same normalized
\* form (the lower-cased URL while case_insensitive is set): log_404 of a
\* URL whose normalized form is logged counts a hit on that entry.
C22_OneEntryPerNormalizedUrl ==
    \A e1, e2 \in LogEntries :
        Normalized(e1.url) = Normalized(e2.url) => e1 = e2

\* there is one entry per URL as it was passed to log_404
OneEntryPerExactUrl ==
    /\ \A e1, e2 \in LogEntries : e1.url = e2.url => e1 = e2
    /\ \A u \in DOMAIN not_found_log : HasLog(u) => not_found_log[u][1].url = u

\* ------------------------------------------------------------------------
\* Specification SpecRobotsParse: parse on texts of every kind of line
\* ------------------------------------------------------------------------

LineCrawlDelayBad == <<"C", "r", "a", "w", "l", "-", "d", "e", "l", "a", "y",
    ":", " ", "x">>

LineCrawlDelay7 == <<"c", "r", "a", "w", "l", "-", "d", "e", "l", "a", "y",
    ":", "7">>

LineHost == <<"H", "o", "s", "t", ":", " ", "e", ".", "x">>

LineNoColon == <<"A", "l", "l", "o", "w", " ", "/">>

LineSpaces == <<" ", " ">>

ParseTextLines ==
    {LineAgentStar, LineAgentGooglebot, LineAllowRoot, LineDisallowAdmin,
     LineCrawlDelay5, LineCrawlDelay7, LineCrawlDelayBad, LineSitemapHttps,
     LineHost, LineNoColon, LineComment, LineSpaces}

NextRobotsParse ==
    \/ \E line \in ParseTextLines : PushLine(line)
    \/ ParseCall

SpecRobotsParse == InitHits /\ [][NextRobotsParse]_vars

\* the directive a line carries: <<>> for a blank line, a comment and a line
\* without ":", else the lower-cased key and the value, both trimmed
DirectiveOf(raw) ==
    LET line == Trim(raw)
        at   == {i \in 1..Len(line) : line[i] = ":"}
    IN IF line = <<>> \/ line[1] = "#" \/ at = {} THEN <<>>
       ELSE <<[key   |-> ToLower(Trim(SubSeq(line, 1, Min(at) - 1))),
               value |-> Trim(SubSeq(line, Min(at) + 1, Len(line)))]>>

\* the positions, among those of the set within, of the lines with the key
KeyedAt(ls, key, within) ==
    {i \in within : DirectiveOf(ls[i]) # <<>> /\ DirectiveOf(ls[i])[1].key = key}

\* the values of the lines at the positions of a set, in line order
ValuesAt(ls, at) ==
    [k \in 1..Cardinality(at) |-> DirectiveOf(ls[Nth(at, k)])[1].value]

\* the delay of the last crawl-delay line, among those of the set within,
\* whose value is an unsigned number; <<>> when there is none
LastDelay(ls, within) ==
    LET valid == {i \in KeyedAt(ls, DirCrawlDelay, within) :
                    ParseU32(DirectiveOf(ls[i])[1].value) # <<>>}
    IN IF valid = {} THEN <<>>
       ELSE ParseU32(DirectiveOf(ls[Max(valid)])[1].value)

\* the block the k-th user-agent line opens: it takes the allow, disallow
\* and crawl-delay lines up to the next user-agent line or the end of input
BlockOf(ls, k) ==
    LET agents == KeyedAt(ls, DirUserAgent, 1..Len(ls))
        from   == Nth(agents, k)
        to     == IF k < Cardinality(agents) THEN Nth(agents, k + 1)
                  ELSE Len(ls) + 1
        within == (from + 1)..(to - 1)
    IN [user_agent  |-> DirectiveOf(ls[from])[1].value,
        allow       |-> ValuesAt(ls, KeyedAt(ls, DirAllow, within)),
        disallow    |-> ValuesAt(ls, KeyedAt(ls, DirDisallow, within)),
        crawl_delay |-> LastDelay(ls, within)]

\* C23: parse is a state machine over the lines: every user-agent line
\* closes the open block and opens a new one, the last block is flushed at
\* the end of input, so the blocks are those of the user-agent lines in
\* input order; allow and disallow lines before the first block are
\* dropped; a valid crawl-delay goes to the open block, to the document
\* when none is open; every sitemap line is appended to the document;
\* unknown directives, comments and blank lines change nothing.
C23_ParseIsLineMachine ==
    result.op = "parse" =>
        LET ls     == Lines(result.content)
            agents == KeyedAt(ls, DirUserAgent, 1..Len(ls))
            before == IF agents = {} THEN 1..Len(ls) ELSE 1..(Min(agents) - 1)
        IN /\ result.robots.rules =
                 [k \in 1..Cardinality(agents) |-> BlockOf(ls, k)]
           /\ result.robots.sitemaps =
                 ValuesAt(ls, KeyedAt(ls, DirSitemap, 1..Len(ls)))
           /\ result.robots.crawl_delay = LastDelay(ls, before)
           /\ result.robots.custom_content = <<>>

\* C23 witness: "Crawl-delay: 5", "User-agent: *", "Allow: /" was parsed:
\* the delay went to the document and the block open at the end of input,
\* with its allow line, is in the document
C23_Witness ==
    /\ result.op = "parse"
    /\ result.content =
         LineCrawlDelay5 \o <<"\n">> \o LineAgentStar \o <<"\n">> \o LineAllowRoot
    /\ result.robots.crawl_delay = <<5>>
    /\ Len(result.robots.rules) = 1
    /\ result.robots.rules[1].user_agent = Star
    /\ result.robots.rules[1].allow = << <<"/">> >>
    /\ result.robots.rules[1].crawl_delay = <<>>

\* the four kinds of suggestion, in the order generate_suggestions makes them
SuggestionKinds ==
    <<[category |-> "Title", priority |-> "High"],
      [category |-> "Meta Description", priority |-> "High"],
      [category |-> "Content", priority |-> "Medium"],
      [category |-> "Keywords", priority |-> "Medium"]>>

\* the kind of a suggestion
KindOf(s) == [category |-> s.category, priority |-> s.priority]

\* whether the suggestions of an analysis hold one of the k-th kind
Suggests(r, k) ==
    \E i \in 1..Len(r.suggestions) : KindOf(r.suggestions[i]) = SuggestionKinds[k]

\* C24: an analysis suggests Title (High) iff the title score is below 50,
\* Meta Description (High) iff the meta score is below 50, Content (Medium)
\* iff the word count is below the configured minimum, Keywords (Medium)
\* iff no focus keyword is set; the suggestions are of these four kinds
\* only, each at most once and in this order, whatever the readability,
\* link, image and technical results are.
C24_FourSuggestionTriggers ==
    result.op = "analyze" =>
        LET s == result.suggestions
        IN /\ Suggests(result, 1) <=> result.title_analysis.score < 50
           /\ Suggests(result, 2) <=> result.meta_analysis.score < 50
           /\ Suggests(result, 3) <=>
                result.content_analysis.word_count
                    < AnalysisSettingsDefault.min_word_count
           /\ Suggests(result, 4) <=> result.input.focus_keyword = <<>>
           /\ \A i \in 1..Len(s) : \E k \in 1..4 : KindOf(s[i]) = SuggestionKinds[k]
           /\ \A i, j \in 1..Len(s) :
                i < j => \E k, l \in 1..4 :
                            /\ k < l
                            /\ KindOf(s[i]) = SuggestionKinds[k]
                            /\ KindOf(s[j]) = SuggestionKinds[l]

\* C24 witness: an input with a broken link, no technical signal, a
\* keyword that occurs nowhere and no meta description was analyzed: the
\* link, technical and keyword scores are low, and the suggestions are
\* Meta Description and Content alone
C24_Witness ==
    /\ result.op = "analyze"
    /\ result.input.broken_links # <<>>
    /\ result.input.focus_keyword = <<Widgets>>
    /\ result.keyword_analysis.score <= 50
    /\ result.technical_analysis.score < 100
    /\ result.link_analysis.score < 100
    /\ Len(result.suggestions) = 2
    /\ KindOf(result.suggestions[1]) = SuggestionKinds[2]
    /\ KindOf(result.suggestions[2]) = SuggestionKinds[3]

\* the sentence count of a text with its floor of 1
FlooredSentences(text) ==
    LET ends == Cardinality({i \in 1..Len(text) : text[i] \in {".", "!",
        "?"}})
    IN IF ends >= 1 THEN ends ELSE 1

\* C25: the sentence count of a text is the number of its ".", "!" and "?"
\* characters with a floor of 1, in the readability analysis and in the
\* content analysis alike: no sentence count is 0, the empty content's
\* included.
C25_SentenceCountFloored ==
    result.op = "analyze" =>
        /\ result.readability_analysis.sentence_count
              = FlooredSentences(result.input.content)
        /\ result.content_analysis.sentence_count
              = FlooredSentences(result.input.content)

\* the count of the readability analysis alone has the floor
ReadabilitySentencesFloored ==
    result.op = "analyze" =>
        result.readability_analysis.sentence_count
            = FlooredSentences(result.input.content)

\* ------------------------------------------------------------------------
\* Specification SpecToggle: rules that match the same URLs, switched off
\* and on between lookups
\* ------------------------------------------------------------------------

ToggleShapes ==
    {[source |-> UrlA,     target |-> UrlX,     match_type |-> "Prefix",
          is_regex |-> FALSE],
     [source |-> UrlAB,    target |-> <<"/", "y">>,    match_type |-> "Exact",
            is_regex |-> FALSE],
     [source |-> <<"b">>,     target |-> <<"/", "z">>,
            match_type |-> "Contains", is_regex |-> FALSE]}

ToggleUrls == {UrlA, UrlAB, UrlX}

NextToggle ==
    \/ \E shape \in ToggleShapes : AddBuilt(shape, TRUE)
    \/ \E id \in 1..MaxIds, active \in BOOLEAN : SetRedirectActive(id, active)
    \/ \E url \in ToggleUrls : FindRedirectCall(url)
    \/ \E url \in ToggleUrls : TestUrl(url)
    \/ \E url \in ToggleUrls : ProcessRedirect(url)

SpecToggle == InitHits /\ [][NextToggle]_vars

\* the id of the rule the last lookup returned: <<>> when the last call was
\* no lookup or found none
ReturnedId ==
    CASE result.op = "find_redirect" /\ result.found # 0 ->
            <<redirects[result.found].id>>
      [] result.op = "test_url" /\ result.matches -> <<result.redirect_id>>
      [] result.op = "process_redirect" /\ result.some -> <<result.redirect_id>>
      [] OTHER -> <<>>

\* a lookup returns the first rule that is active and accepts the URL: an
\* inactive rule is never returned and the lookup falls through to the
\* next active rule that matches
LookupSkipsInactive ==
    result.op \in {"find_redirect", "test_url", "process_redirect"} =>
        LET hit == ActiveMatches(result.url)
        IN ReturnedId = IF hit = {} THEN <<>> ELSE <<redirects[Min(hit)].id>>

\* a rule changes its is_active only by set_redirect_active with its id and
\* the new value, and keeps its position and every other field
ToggleStep ==
    /\ Len(redirects') >= Len(redirects)
    /\ \A i \in 1..Len(redirects) :
          /\ [redirects'[i] EXCEPT !.is_active = redirects[i].is_active]
                = redirects[i]
          /\ redirects'[i].is_active # redirects[i].is_active =>
                /\ result'.op = "set_redirect_active"
                /\ result'.id = redirects[i].id
                /\ result'.active = redirects'[i].is_active
                /\ result'.ok

\* C26: after set_redirect_active(id, false) no lookup returns the rule id
\* until set_redirect_active(id, true); meanwhile lookups fall through to
\* the next active rule that matches, and the rule switched on again stands
\* where it stood.
C26_ActivationToggle == [] LookupSkipsInactive /\ [][ToggleStep]_vars

\* C26 witness: of the rules [Prefix "/a", Exact "/a/b"] the first was
\* switched off, and test_url("/a/b") returned the second
C26_Witness ==
    /\ Len(redirects) = 2
    /\ redirects[1].match_type = "Prefix" /\ redirects[1].source_url = UrlA
    /\ redirects[2].match_type = "Exact" /\ redirects[2].source_url = UrlAB
    /\ ~ redirects[1].is_active /\ redirects[2].is_active
    /\ result.op = "test_url" /\ result.url = UrlAB
    /\ result.matches /\ result.redirect_id = redirects[2].id

\* ------------------------------------------------------------------------
\* Specification SpecReadOnly: the read operations of the service between
\* its mutations
\* ------------------------------------------------------------------------

\* the orders in which get_top_404s may hold the entries of a set after
\* sort_by(|a, b| b.hit_count.cmp(&a.hit_count)): HashMap::values() yields
\* them in any order and the stable sort keeps that order among equal counts
SortedOrders(entries) ==
    {logs \in [1..Cardinality(entries) -> entries] :
        /\ \A i, j \in 1..Cardinality(entries) : i # j => logs[i] # logs[j]
        /\ \A i, j \in 1..Cardinality(entries) :
              i < j => logs[i].hit_count >= logs[j].hit_count}

\* Vec::truncate
Truncate(seq, limit) == IF Len(seq) > limit THEN SubSeq(seq, 1,
    limit) ELSE seq

\* get_top_404s
GetTop404s(limit) ==
    \E logs \in SortedOrders({e \in LogEntries : ~ e.is_ignored}) :
        /\ result' = [op |-> "get_top_404s", limit |-> limit,
                      logs |-> Truncate(logs, limit)]
        /\ UNCHANGED <<redirects, settings, content, data, not_found_log,
                       next_id, logged, callerVars>>

ReadOnlyUrls == {UrlA, UrlB, UrlX}

NextReadOnly ==
    \/ Add301(UrlA, UrlX)
    \/ \E shape \in PrefixShapes : AddBuilt(shape, TRUE)
    \/ \E url \in LogUrls, who \in LogCallers : Log404(url, who[1], who[2])
    \/ \E url \in LogUrls : Ignore404(url)
    \/ \E url \in ReadOnlyUrls : FindRedirectCall(url)
    \/ \E url \in ReadOnlyUrls : TestUrl(url)
    \/ \E url \in ReadOnlyUrls : ProcessRedirect(url)
    \/ ExportCsv
    \/ \E limit \in 0..2 : GetTop404s(limit)

SpecReadOnly == InitHits /\ [][NextReadOnly]_vars

ReadOps ==
    {"find_redirect", "test_url", "process_redirect", "export_csv",
     "get_top_404s"}

LogCountsPositive ==
    \A u \in DOMAIN not_found_log : HasLog(u) => not_found_log[u][1].hit_count >= 1

\* what a step may do to the entry of a URL: it stays, under its URL, its
\* count does not fall, its flags do not fall back, and a log_404 of the
\* URL that is recorded counts one hit, ignored or not
LogEntryStep(u) ==
    LET old == not_found_log[u][1]
        new == not_found_log'[u][1]
    IN /\ not_found_log'[u] # <<>>
       /\ new.url = old.url
       /\ new.hit_count >= old.hit_count
       /\ old.has_redirect => new.has_redirect
       /\ old.is_ignored => new.is_ignored
       /\ (logged'[u] = logged[u] + 1 /\ settings.log_404s) =>
              new.hit_count = old.hit_count + 1

\* C28: no operation of the service removes an entry of the 404 log; an
\* entry's hit_count is at least 1 and never decreases, log_404 counting a
\* hit on an ignored entry too; has_redirect and is_ignored, once true, stay
\* true, also when remove_redirect removes the rule made from the 404.
C28_LogEntriesPermanent ==
    /\ [] LogCountsPositive
    /\ [][\A u \in DOMAIN not_found_log : HasLog(u) => LogEntryStep(u)]_vars

\* C28 witness: the entry of "/a" was hit three times, is ignored and has
\* has_redirect set, and the rule made from it has been removed
C28_Witness ==
    /\ HasLog(UrlA)
    /\ not_found_log[UrlA][1].hit_count = 3
    /\ not_found_log[UrlA][1].is_ignored
    /\ not_found_log[UrlA][1].has_redirect
    /\ redirects = <<>>
    /\ result.op = "remove_redirect" /\ result.ok

\* ------------------------------------------------------------------------
\* Specification SpecIds: remove_redirect, update_redirect and
\* set_redirect_active called with ids that are and are not in the list
\* ------------------------------------------------------------------------

\* most rules of one list under SpecIds
MaxListed == 3

\* the CSV line of the i-th rule: "/<i>,/x"
IdCsvLine(i) == <<"/", Digits[i + 1]>> \o <<",", "/", "x">>

\* the texts imported under SpecIds: one rule, and MaxListed rules
IdCsvTexts ==
    {IdCsvLine(1), JoinLines([i \in 1..MaxListed |-> IdCsvLine(i)])}

NextIds ==
    \/ \E csv \in IdCsvTexts : ImportWithin(csv, MaxListed, MaxListed)
    \/ Log404(UrlA, "ref", None)
    \/ \E id \in 1..(MaxListed + 1) : RemoveRedirect(id)
    \/ \E id \in 1..(MaxListed + 1), source \in OptionOf({UrlB}) :
           UpdateRedirect(id, source, <<UrlA>>, <<"Gone">>)
    \/ \E id \in 1..(MaxListed + 1) : SetRedirectActive(id, FALSE)

SpecIds == InitHits /\ [][NextIds]_vars

\* the ids of a rule list, in its order
IdsOf(rules) == [i \in 1..Len(rules) |-> rules[i].id]

\* rules is what is left of before once the rule at position p is taken
\* out: the other rules, unchanged and in their order
IsWithout(rules, before, p) ==
    /\ Len(rules) = Len(before) - 1
    /\ \A i \in 1..Len(rules) :
          rules[i] = IF i < p THEN before[i] ELSE before[i + 1]

\* a step of remove_redirect, update_redirect or set_redirect_active
IdCallStep ==
    LET id      == result'.id
        present == \E i \in 1..Len(redirects) : redirects[i].id = id
    IN /\ result'.ok = present
       /\ ~ present =>
             /\ redirects' = redirects
             /\ not_found_log' = not_found_log
             /\ settings' = settings
             /\ next_id' = next_id
       /\ result'.op = "remove_redirect" =>
             /\ not_found_log' = not_found_log
             /\ present =>
                   \E p \in 1..Len(redirects) :
                       /\ redirects[p].id = id
                       /\ IsWithout(redirects', redirects, p)

\* C29: remove_redirect, update_redirect and set_redirect_active with an id
\* that is not in the rule list return false and change nothing of the
\* service; remove_redirect with an id of the list returns true, removes
\* that rule alone, keeps the order of the others and leaves the 404 map
\* alone.
C29_AbsentIdNoEffect ==
    [][result'.op \in {"remove_redirect", "update_redirect",
                       "set_redirect_active"} => IdCallStep]_vars

\* C29 witness: of the rules 1, 2, 3 remove_redirect(1) left 2 and 3 in this
\* order, the 404 map holding an entry
C29_Witness ==
    /\ result.op = "remove_redirect" /\ result.id = 1 /\ result.ok
    /\ IdsOf(redirects) = <<2, 3>>
    /\ HasLog(UrlA)

\* ------------------------------------------------------------------------
\* Specification SpecTitle: analyze on titles of every length class, with
\* the keyword absent, early and late
\* ------------------------------------------------------------------------

\* titles "t..t" [keyword] "t..t" of 0 to 72 characters, the keyword at
\* offset 0, 21 or 25
TitleSamples ==
    {Repeat(<<"t">>, a) \o mid \o Repeat(<<"t">>, b) :
        a \in {0, 21, 25}, mid \in {<<>>, Widgets, <<"W", "i", "d", "g", "e",
            "t", "s">>},
        b \in {0, 5, 40}}

TitleInputs ==
    {[InputScenario EXCEPT !.title = t, !.focus_keyword = k] :
        t \in TitleSamples, k \in FocusKeywords}

NextTitle ==
    \/ \E input \in TitleInputs : BuildInput(input)
    \/ AnalyzeCall(0)

SpecTitle == InitHits /\ [][NextTitle]_vars

\* C30: the title score of an analysis is 60 at least, whatever the title
\* and the focus keyword, set or not: of the penalties for a short and a
\* long title one applies at most, and of those for an absent and a late
\* keyword one at most; so analyze never makes the Title suggestion.
C30_TitleScoreAtLeast60 ==
    result.op = "analyze" =>
        LET t == result.title_analysis
            titles == {t.issues[i].title : i \in 1..Len(t.issues)}
        IN /\ t.score >= 60
           /\ ~ ({"Title is too short", "Title is too long"} \subseteq titles)
           /\ ~ ({"Focus keyword not in title",
                  "Keyword not at start of title"} \subseteq titles)
           /\ ~ Suggests(result, 1)

\* C30 witness: a title of 5 characters without the keyword "widgets" was
\* analyzed: it is short and lacks the keyword, and scores 60
C30_Witness ==
    /\ result.op = "analyze"
    /\ result.input.title = Repeat(<<"t">>, 5)
    /\ result.input.focus_keyword = <<Widgets>>
    /\ result.title_analysis.score = 60
    /\ Len(result.title_analysis.issues) = 2
    /\ ~ Suggests(result, 1)

====
